---- MODULE Spec2Model ----
(***************************************************************************)
(* A model of the Intelligent CV Analyzer: the three substring-search      *)
(* algorithms, the analysis engine (scoring, batch orchestration, the      *)
(* extraction cache, ranking), the desktop GUI's worker threads and their  *)
(* handlers, and the persistence store.                                    *)
(*                                                                         *)
(* Strings are sequences of character codes (ord values), 1-based here and *)
(* 0-based in the source; reported match positions are the source's        *)
(* 0-based positions.  Floating-point scores are exact rationals <<n, d>>  *)
(* with d > 0.                                                             *)
(***************************************************************************)
EXTENDS Integers, Sequences, FiniteSets, TLC

VARIABLES
    \* ---- string matching (engine/algorithms.py) ----
    text, pattern, case_sensitive, results,
    \* ---- relevance score (engine/analyzer.py) ----
    matched_keywords, total_keywords, score,
    \* ---- ranking (engine/analyzer.py) ----
    rank_results, top_n, top,
    \* ---- analysis engine (engine/analyzer.py) ----
    request, disk, cv_cache, analysis_history, failed_paths, load_log,
    last_call,
    \* ---- desktop GUI (gui/handlers.py, gui/workers.py) ----
    analysis_worker, workers, ui_queue, ui_pc, start_analysis_btn,
    stop_analysis_btn, analysis_results,
    \* ---- persistence store (persistence/db.py) ----
    job_descriptions, analysis_rows, batch_rows, next_id, last_op,
    \* ---- command line (app.py) ----
    argv, cli_pc, cli_algorithm, app, pending, exit_status,
    \* ---- single-CV scoring (engine/analyzer.py) ----
    analyze_call, analyze_result, search_calls,
    \* ---- CV file sets (app.py, gui/handlers.py) ----
    folder, cli_cv_files, main_window_cv_files, unsupported_doc_files,
    last_load,
    \* ---- CSV export (engine/analyzer.py) ----
    batch_result, csvfile, csv_rows,
    \* ---- a caller of get_analysis_history (engine/analyzer.py) ----
    history_copy,
    \* ---- the loops of the search algorithms (engine/algorithms.py) ----
    failure_function, window_hashes, kmp_state,
    \* ---- a GUI session: the batch run of a worker over the shared file
    \* list, the selected job description and the job of the running
    \* analysis, the results lock and the handlers inside its sections
    \* (gui/handlers.py, gui/workers.py, engine/analyzer.py) ----
    batch_loop, current_job_description, running_job, results_mutex, sections

searchVars == <<text, pattern, case_sensitive, results>>
scoreVars == <<matched_keywords, total_keywords, score>>
rankVars == <<rank_results, top_n, top>>
engineVars == <<request, disk, cv_cache, analysis_history, failed_paths,
                load_log, last_call>>
guiVars == <<analysis_worker, workers, ui_queue, ui_pc, start_analysis_btn,
                stop_analysis_btn, analysis_results>>
dbVars == <<job_descriptions, analysis_rows, batch_rows, next_id, last_op>>
cliVars == <<argv, cli_pc, cli_algorithm, app, pending, exit_status>>
analyzeVars == <<analyze_call, analyze_result, search_calls>>
fileVars == <<folder, cli_cv_files, main_window_cv_files,
              unsupported_doc_files, last_load>>
csvVars == <<batch_result, csvfile, csv_rows>>
callerVars == <<history_copy>>
loopVars == <<failure_function, window_hashes, kmp_state>>
sessionVars == <<batch_loop, current_job_description, running_job,
                 results_mutex, sections>>
vars == <<searchVars, scoreVars, rankVars, engineVars, guiVars, dbVars,
          cliVars, analyzeVars, fileVars, csvVars, callerVars, loopVars, sessionVars>>

\* what each part of the program leaves alone
notSearch == <<scoreVars, rankVars, engineVars, guiVars, dbVars,
               cliVars, analyzeVars, fileVars, csvVars, callerVars, loopVars, sessionVars>>
notScore == <<searchVars, rankVars, engineVars, guiVars, dbVars,
              cliVars, analyzeVars, fileVars, csvVars, callerVars, loopVars, sessionVars>>
notRank == <<searchVars, scoreVars, engineVars, guiVars, dbVars,
             cliVars, analyzeVars, fileVars, csvVars, callerVars, loopVars, sessionVars>>
notEngine == <<searchVars, scoreVars, rankVars, guiVars, dbVars,
               cliVars, analyzeVars, fileVars, csvVars, callerVars, loopVars, sessionVars>>
notStore == <<searchVars, scoreVars, rankVars, engineVars, guiVars,
              cliVars, analyzeVars, fileVars, csvVars, callerVars, loopVars, sessionVars>>
notGui == <<searchVars, scoreVars, rankVars, engineVars,
            cliVars, analyzeVars, fileVars, csvVars, callerVars, loopVars, sessionVars>>
notCli == <<searchVars, scoreVars, rankVars, engineVars, guiVars, dbVars,
            analyzeVars, fileVars, csvVars, callerVars, loopVars, sessionVars>>
notAnalyze == <<searchVars, scoreVars, rankVars, engineVars, guiVars, dbVars,
                cliVars, fileVars, csvVars, callerVars, loopVars, sessionVars>>
notFiles == <<searchVars, scoreVars, rankVars, engineVars, guiVars, dbVars,
              cliVars, analyzeVars, csvVars, callerVars, loopVars, sessionVars>>
notCaller == <<searchVars, scoreVars, rankVars, engineVars, guiVars, dbVars,
               cliVars, analyzeVars, fileVars, csvVars, loopVars, sessionVars>>
notLoop == <<scoreVars, rankVars, engineVars, guiVars, dbVars,
            cliVars, analyzeVars, fileVars, csvVars, callerVars, sessionVars>>
notCsv == <<searchVars, scoreVars, rankVars, engineVars, guiVars, dbVars,
            cliVars, analyzeVars, fileVars, callerVars, loopVars, sessionVars>>

Min(a, b) == IF a < b THEN a ELSE b
Max(a, b) == IF a > b THEN a ELSE b

(***************************************************************************)
(* Characters, by their ord values.  AE is the capital ligature (U+00C6),  *)
(* whose code is congruent to that of 'a' modulo the Rabin-Karp prime      *)
(* (198 = 97 + 101), so that hash collisions occur; ae is its lower case.  *)
(***************************************************************************)
Ord == [A |-> 65, a |-> 97, space |-> 32, AE |-> 198, ae |-> 230]

\* ord() of the other characters the model writes, and a string literal as
\* the sequence of its characters' codes: Text(<<"r", "k">>) is "rk"
LowerLetters == <<"a", "b", "c", "d", "e", "f", "g", "h", "i", "j", "k", "l",
                  "m", "n", "o", "p", "q", "r", "s", "t", "u", "v", "w", "x",
                  "y", "z">>
UpperLetters == <<"A", "B", "C", "D", "E", "F", "G", "H", "I", "J", "K", "L",
                  "M", "N", "O", "P", "Q", "R", "S", "T", "U", "V", "W", "X",
                  "Y", "Z">>
Punctuation == <<" ", "-", ".", ",", ";", "\"", "/", ":", "\r", "\n", "_">>
PunctuationCodes == <<32, 45, 46, 44, 59, 34, 47, 58, 13, 10, 95>>
Digits == <<"0", "1", "2", "3", "4", "5", "6", "7", "8", "9">>

ord(ch) ==
    IF \E k \in 1..26 : LowerLetters[k] = ch
    THEN 96 + (CHOOSE k \in 1..26 : LowerLetters[k] = ch)
    ELSE IF \E k \in 1..26 : UpperLetters[k] = ch
    THEN 64 + (CHOOSE k \in 1..26 : UpperLetters[k] = ch)
    ELSE IF \E k \in 1..10 : Digits[k] = ch
    THEN 47 + (CHOOSE k \in 1..10 : Digits[k] = ch)
    ELSE PunctuationCodes[CHOOSE k \in 1..Len(Punctuation) : Punctuation[k] = ch]

Text(chars) == [k \in 1..Len(chars) |-> ord(chars[k])]

\* str.lower() on one character: the ASCII capitals and the ligature
LowerChar(c) ==
    IF c \in 65..90 THEN c + 32
    ELSE IF c = Ord.AE THEN Ord.ae
    ELSE c

\* str.lower()
Lower(s) == [k \in 1..Len(s) |-> LowerChar(s[k])]

\* A search result: the match positions, the comparison count, and whether
\* the call raised (IndexError) instead of returning.
SearchResult(m, c) == [matches |-> m, comparisons |-> c, raised |-> FALSE]
SearchRaised == [matches |-> <<>>, comparisons |-> 0, raised |-> TRUE]

base == 256
prime == 101

(***************************************************************************)
(* brute_force_search                                                      *)
(***************************************************************************)
\* the inner while loop: the j at which it stops
RECURSIVE CompareFrom(_, _, _, _)
CompareFrom(t, p, i, j) ==
    IF j < Len(p) /\ t[i + j + 1] = p[j + 1]
    THEN CompareFrom(t, p, i, j + 1)
    ELSE j

\* the for loop over the start positions i = 0 .. n - m
RECURSIVE BruteForceLoop(_, _, _, _, _)
BruteForceLoop(t, p, i, matches, comparisons) ==
    IF i > Len(t) - Len(p)
    THEN SearchResult(matches, comparisons)
    ELSE LET j == CompareFrom(t, p, i, 0)
             c == comparisons + j + (IF j < Len(p) THEN 1 ELSE 0)
         IN  BruteForceLoop(t, p, i + 1,
                            IF j = Len(p) THEN Append(matches, i) ELSE matches,
                            c)

brute_force_search(txt, pat, cs) ==
    LET t == IF cs THEN txt ELSE Lower(txt)
        p == IF cs THEN pat ELSE Lower(pat)
    IN  IF Len(p) > Len(t)
        THEN SearchResult(<<>>, 0)
        ELSE BruteForceLoop(t, p, 0, <<>>, 0)

(***************************************************************************)
(* rabin_karp_search                                                       *)
(***************************************************************************)
\* h = base^(m-1) mod prime by repeated multiplication
RECURSIVE HighOrder(_, _)
HighOrder(k, h) ==
    IF k <= 0 THEN h ELSE HighOrder(k - 1, (h * base) % prime)

\* Horner's rule over s[1..k]
RECURSIVE HornerHash(_, _)
HornerHash(s, k) ==
    IF k = 0 THEN 0 ELSE (base * HornerHash(s, k - 1) + s[k]) % prime

\* an update that keeps the character leaving the window
RollKeepingFirst(t, m, h, i, text_hash) ==
    (base * text_hash + t[i + m + 1]) % prime

\* the rolling update of the window hash when leaving position i
RollHash(t, m, h, i, text_hash) ==
    LET v == (base * (text_hash - t[i + 1] * h) + t[i + m + 1]) % prime
    IN  IF v < 0 THEN v + prime ELSE v

RECURSIVE RabinKarpLoop(_, _, _, _, _, _, _, _)
RabinKarpLoop(t, p, h, pattern_hash, text_hash, i, matches, comparisons) ==
    IF i > Len(t) - Len(p)
    THEN SearchResult(matches, comparisons)
    ELSE LET hit == pattern_hash = text_hash
             j == IF hit THEN CompareFrom(t, p, i, 0) ELSE 0
             c == IF hit
                  THEN comparisons + j + (IF j < Len(p) THEN 1 ELSE 0)
                  ELSE comparisons
             ms == IF hit /\ j = Len(p) THEN Append(matches, i) ELSE matches
             nh == IF i < Len(t) - Len(p)
                   THEN RollHash(t, Len(p), h, i, text_hash)
                   ELSE text_hash
         IN  RabinKarpLoop(t, p, h, pattern_hash, nh, i + 1, ms, c)

rabin_karp_search(txt, pat, cs) ==
    LET t == IF cs THEN txt ELSE Lower(txt)
        p == IF cs THEN pat ELSE Lower(pat)
        m == Len(p)
    IN  IF m > Len(t)
        THEN SearchResult(<<>>, 0)
        ELSE RabinKarpLoop(t, p, HighOrder(m - 1, 1), HornerHash(p, m),
                           HornerHash(t, m), 0, <<>>, 0)

(***************************************************************************)
(* kmp_search                                                              *)
(***************************************************************************)
\* a construction that restarts from length 0 on a mismatch
RECURSIVE FailureLoopRestarting(_, _, _, _)
FailureLoopRestarting(p, lps, length, i) ==
    IF i >= Len(p)
    THEN lps
    ELSE IF p[i + 1] = p[length + 1]
         THEN FailureLoopRestarting(p, [lps EXCEPT ![i + 1] = length + 1],
                                    length + 1, i + 1)
         ELSE IF length # 0
              THEN FailureLoopRestarting(p, lps, 0, i)
              ELSE FailureLoopRestarting(p, [lps EXCEPT ![i + 1] = 0], 0, i + 1)

\* the while loop of _build_failure_function; lps is 1-based here
RECURSIVE FailureLoop(_, _, _, _)
FailureLoop(p, lps, length, i) ==
    IF i >= Len(p)
    THEN lps
    ELSE IF p[i + 1] = p[length + 1]
         THEN FailureLoop(p, [lps EXCEPT ![i + 1] = length + 1], length + 1, i + 1)
         ELSE IF length # 0
              THEN FailureLoop(p, lps, lps[length], i)
              ELSE FailureLoop(p, [lps EXCEPT ![i + 1] = 0], 0, i + 1)

_build_failure_function(p) ==
    FailureLoop(p, [k \in 1..Len(p) |-> 0], 0, 1)

\* the while loop of kmp_search; pattern[j] with an empty pattern is an
\* IndexError
RECURSIVE KMPLoop(_, _, _, _, _, _, _)
KMPLoop(t, p, lps, i, j, matches, comparisons) ==
    IF i >= Len(t)
    THEN SearchResult(matches, comparisons)
    ELSE IF j >= Len(p)
    THEN SearchRaised
    ELSE LET eq == t[i + 1] = p[j + 1]
             i1 == IF eq THEN i + 1 ELSE i
             j1 == IF eq THEN j + 1 ELSE j
             c1 == IF eq THEN comparisons + 1 ELSE comparisons
         IN  IF j1 = Len(p)
             THEN KMPLoop(t, p, lps, i1, lps[j1], Append(matches, i1 - j1), c1)
             ELSE IF i1 < Len(t) /\ t[i1 + 1] # p[j1 + 1]
                  THEN IF j1 # 0
                       THEN KMPLoop(t, p, lps, i1, lps[j1], matches, c1 + 1)
                       ELSE KMPLoop(t, p, lps, i1 + 1, j1, matches, c1 + 1)
                  ELSE KMPLoop(t, p, lps, i1, j1, matches, c1)

kmp_search(txt, pat, cs) ==
    LET t == IF cs THEN txt ELSE Lower(txt)
        p == IF cs THEN pat ELSE Lower(pat)
    IN  IF Len(p) > Len(t)
        THEN SearchResult(<<>>, 0)
        ELSE KMPLoop(t, p, _build_failure_function(p), 0, 0, <<>>, 0)

(***************************************************************************)
(* The search specification: compare_algorithms' three calls on one text   *)
(* and pattern, each call one action.                                      *)
(***************************************************************************)
MaxTextLen == 4
MaxPatLen == 2

Alphabet == {Ord.A, Ord.a, Ord.AE}

SeqsUpTo(S, n) == UNION {[1..k -> S] : k \in 0..n}

Algorithms == <<"Brute Force", "Rabin-Karp", "KMP">>
AlgorithmNames == {Algorithms[k] : k \in 1..Len(Algorithms)}

NotRun == [matches |-> <<>>, comparisons |-> -1, raised |-> FALSE]

SearchIdle ==
    /\ text = <<>>
    /\ pattern = <<>>
    /\ case_sensitive = FALSE
    /\ results = [a \in AlgorithmNames |-> NotRun]

SearchInit ==
    /\ text \in SeqsUpTo(Alphabet, MaxTextLen)
    /\ pattern \in SeqsUpTo(Alphabet, MaxPatLen)
    /\ case_sensitive \in BOOLEAN
    /\ results = [a \in AlgorithmNames |-> NotRun]

BruteForceSearch ==
    /\ results["Brute Force"] = NotRun
    /\ results' = [results EXCEPT
                     !["Brute Force"] = brute_force_search(text, pattern, case_sensitive)]
    /\ UNCHANGED <<text, pattern, case_sensitive>>
    /\ UNCHANGED notSearch

RabinKarpSearch ==
    /\ results["Rabin-Karp"] = NotRun
    /\ results' = [results EXCEPT
                     !["Rabin-Karp"] = rabin_karp_search(text, pattern, case_sensitive)]
    /\ UNCHANGED <<text, pattern, case_sensitive>>
    /\ UNCHANGED notSearch

KMPSearch ==
    /\ results["KMP"] = NotRun
    /\ results' = [results EXCEPT
                     !["KMP"] = kmp_search(text, pattern, case_sensitive)]
    /\ UNCHANGED <<text, pattern, case_sensitive>>
    /\ UNCHANGED notSearch

(***************************************************************************)
(* The loops of the algorithms on their own: the failure function of a     *)
(* pattern, the window hashes rabin_karp_search goes through, and          *)
(* kmp_search's while loop one iteration at a time.  Each has its own      *)
(* inputs, drawn into text and pattern at the start.                       *)
(***************************************************************************)
MaxFailureLen == 9
MaxWindowText == 4
MaxKmpText == 6
MaxKmpPattern == 4

Letters == {ord("a"), ord("b")}

\* characters whose codes are below, at and above the prime and the base
HashAlphabet == {Ord.a, Ord.AE, prime, base, base * prime + 1}

NonEmptySeqs(S, n) == SeqsUpTo(S, n) \ {<<>>}

NotBuilt == <<-1>>
NotHashed == <<-1>>
NotStarted == [pc |-> "none", i |-> 0, j |-> 0, matches |-> <<>>, comparisons |-> 0]

LoopIdle ==
    /\ failure_function = NotBuilt
    /\ window_hashes = NotHashed
    /\ kmp_state = NotStarted

\* the threads that run handlers, and a handler outside the lock's sections
Threads == {"ui", "background"}
NoResults == [a \in {} |-> 0]
Outside == [pc |-> "idle", handler |-> "", value |-> NoResults,
            snapshot |-> NoResults]
NoBatchRun == [pc |-> "none", index |-> 0, cv_results |-> <<>>,
               total_cvs_analyzed |-> 0]

BatchIdle == batch_loop = NoBatchRun

JobsIdle ==
    /\ current_job_description = 0
    /\ running_job = 0

LockIdle ==
    /\ results_mutex = "free"
    /\ sections = [t \in Threads |-> Outside]

SessionIdle ==
    /\ BatchIdle
    /\ JobsIdle
    /\ LockIdle

\* ---- _build_failure_function ----
FailureInit ==
    /\ text = <<>>
    /\ pattern \in NonEmptySeqs(Letters, MaxFailureLen)
    /\ case_sensitive = TRUE
    /\ results = [a \in AlgorithmNames |-> NotRun]
    /\ LoopIdle
    /\ SessionIdle

BuildFailureFunction ==
    /\ failure_function = NotBuilt
    /\ failure_function' = _build_failure_function(pattern)
    /\ UNCHANGED <<window_hashes, kmp_state>>
    /\ UNCHANGED searchVars
    /\ UNCHANGED notLoop

\* ---- the rolling hash of rabin_karp_search ----
\* text_hash at each window position i = 0 .. n - m, as line 164 reads it
RECURSIVE WindowHashes(_, _, _, _, _)
WindowHashes(t, m, h, i, text_hash) ==
    IF i > Len(t) - m
    THEN <<>>
    ELSE <<text_hash>>
         \o WindowHashes(t, m, h, i + 1,
                         IF i < Len(t) - m
                         THEN RollHash(t, m, h, i, text_hash)
                         ELSE text_hash)

WindowInit ==
    /\ text \in NonEmptySeqs(HashAlphabet, MaxWindowText)
    /\ pattern \in NonEmptySeqs({Ord.a}, MaxWindowText)
    /\ Len(pattern) <= Len(text)
    /\ case_sensitive = TRUE
    /\ results = [a \in AlgorithmNames |-> NotRun]
    /\ LoopIdle
    /\ SessionIdle

SlideWindow ==
    /\ window_hashes = NotHashed
    /\ window_hashes' =
          LET m == Len(pattern)
          IN  WindowHashes(text, m, HighOrder(m - 1, 1), 0, HornerHash(text, m))
    /\ UNCHANGED <<failure_function, kmp_state>>
    /\ UNCHANGED searchVars
    /\ UNCHANGED notLoop

\* ---- the while loop of kmp_search ----
\* a fallback that leaves the comparison counter alone
FallbackUncounted(lps, st, i1, j1, c1) ==
    [st EXCEPT !.i = i1, !.j = lps[j1], !.comparisons = c1]

\* the mismatch with j != 0, lines 252-254: the mismatching pair is counted,
\* then j falls back to lps[j - 1]
Fallback(lps, st, i1, j1, c1) ==
    [st EXCEPT !.i = i1, !.j = lps[j1], !.comparisons = c1 + 1]

\* an iteration that forgets to advance the text on a mismatch at j = 0
IterationWithoutAdvance(t, p, lps, st) ==
    LET eq == t[st.i + 1] = p[st.j + 1]
        i1 == IF eq THEN st.i + 1 ELSE st.i
        j1 == IF eq THEN st.j + 1 ELSE st.j
        c1 == IF eq THEN st.comparisons + 1 ELSE st.comparisons
    IN  IF j1 = Len(p)
        THEN [st EXCEPT !.i = i1, !.j = lps[j1], !.comparisons = c1,
                        !.matches = Append(st.matches, i1 - j1)]
        ELSE IF i1 < Len(t) /\ t[i1 + 1] # p[j1 + 1]
        THEN [st EXCEPT !.i = i1, !.j = IF j1 # 0 THEN lps[j1] ELSE j1,
                        !.comparisons = c1 + 1]
        ELSE [st EXCEPT !.i = i1, !.j = j1, !.comparisons = c1]

\* one iteration of the loop, lines 243-256
KMPIteration(t, p, lps, st) ==
    LET eq == t[st.i + 1] = p[st.j + 1]
        i1 == IF eq THEN st.i + 1 ELSE st.i
        j1 == IF eq THEN st.j + 1 ELSE st.j
        c1 == IF eq THEN st.comparisons + 1 ELSE st.comparisons
    IN  IF j1 = Len(p)
        THEN [st EXCEPT !.i = i1, !.j = lps[j1], !.comparisons = c1,
                        !.matches = Append(st.matches, i1 - j1)]
        ELSE IF i1 < Len(t) /\ t[i1 + 1] # p[j1 + 1]
        THEN IF j1 # 0
             THEN Fallback(lps, st, i1, j1, c1)
             ELSE [st EXCEPT !.i = i1 + 1, !.j = j1, !.comparisons = c1 + 1]
        ELSE [st EXCEPT !.i = i1, !.j = j1, !.comparisons = c1]

KmpInit ==
    /\ text \in SeqsUpTo(Letters, MaxKmpText)
    /\ pattern \in NonEmptySeqs(Letters, MaxKmpPattern)
    /\ case_sensitive = TRUE
    /\ results = [a \in AlgorithmNames |-> NotRun]
    /\ LoopIdle
    /\ SessionIdle

\* kmp_search up to its loop: the early return of a pattern longer than the
\* text, or i = j = 0
KmpEnter ==
    /\ kmp_state.pc = "none"
    /\ kmp_state' = [NotStarted EXCEPT
                        !.pc = IF Len(pattern) > Len(text) THEN "returned"
                               ELSE "loop"]
    /\ UNCHANGED <<failure_function, window_hashes>>
    /\ UNCHANGED searchVars
    /\ UNCHANGED notLoop

KmpIterate ==
    /\ kmp_state.pc = "loop"
    /\ kmp_state.i < Len(text)
    /\ kmp_state' = KMPIteration(text, pattern, _build_failure_function(pattern),
                                 kmp_state)
    /\ UNCHANGED <<failure_function, window_hashes>>
    /\ UNCHANGED searchVars
    /\ UNCHANGED notLoop

KmpReturn ==
    /\ kmp_state.pc = "loop"
    /\ kmp_state.i >= Len(text)
    /\ kmp_state' = [kmp_state EXCEPT !.pc = "returned"]
    /\ UNCHANGED <<failure_function, window_hashes>>
    /\ UNCHANGED searchVars
    /\ UNCHANGED notLoop

(***************************************************************************)
(* Rational arithmetic for the scores: <<n, d>> with d > 0.                *)
(***************************************************************************)
RatZero == <<0, 1>>
RatOne == <<1, 1>>
RatEq(a, b) == a[1] * b[2] = b[1] * a[2]
RatLess(a, b) == a[1] * b[2] < b[1] * a[2]
RECURSIVE GCD(_, _)
GCD(m, n) == IF n = 0 THEN m ELSE GCD(n, m % n)
\* lowest terms, to keep the numbers small
RatNorm(a) ==
    LET g == GCD(IF a[1] < 0 THEN -a[1] ELSE a[1], a[2])
    IN  <<a[1] \div g, a[2] \div g>>
RatAdd(a, b) == RatNorm(<<a[1] * b[2] + b[1] * a[2], a[2] * b[2]>>)
RatDiv(a, n) == RatNorm(<<a[1], a[2] * n>>)
RatMin(a, b) == IF RatLess(b, a) THEN b ELSE a
RatPositive(a) == a[1] > 0

(***************************************************************************)
(* _calculate_relevance_score                                              *)
(***************************************************************************)
\* the score without the clamp to 1.0
UnclampedScore(matched, total) ==
    IF Len(total) = 0
    THEN RatZero
    ELSE LET k == Len(matched)
         IN  RatAdd(<<k, Len(total)>>,
                    IF k > 0 THEN RatMin(<<1, 10>>, <<k, 100>>) ELSE RatZero)

_calculate_relevance_score(matched, total) ==
    IF Len(total) = 0
    THEN RatZero
    ELSE LET base_score == <<Len(matched), Len(total)>>
             \* min(0.1, len(matched) * 0.01)
             density_bonus == RatMin(<<1, 10>>, <<Len(matched), 100>>)
             with_bonus == IF Len(matched) > 0
                           THEN RatAdd(base_score, density_bonus)
                           ELSE base_score
         IN  RatMin(RatOne, with_bonus)

(***************************************************************************)
(* The relevance-score specification: the function applied to k matched    *)
(* keywords out of t.                                                      *)
(***************************************************************************)
MaxKeywords == 20

NoScore == <<-1, 1>>
SomeKeyword == <<Ord.a>>

ScoreIdle ==
    /\ matched_keywords = <<>>
    /\ total_keywords = <<>>
    /\ score = NoScore

ScoreInit ==
    /\ \E t \in 0..MaxKeywords : \E k \in 0..t :
          /\ total_keywords = [i \in 1..t |-> SomeKeyword]
          /\ matched_keywords = [i \in 1..k |-> SomeKeyword]
    /\ score = NoScore

CalculateRelevanceScore ==
    /\ score = NoScore
    /\ score' = _calculate_relevance_score(matched_keywords, total_keywords)
    /\ UNCHANGED <<matched_keywords, total_keywords>>
    /\ UNCHANGED notScore

(***************************************************************************)
(* get_top_matching_cvs                                                    *)
(***************************************************************************)
\* a descending sort that puts an entry in front of its equals
RECURSIVE InsertBeforeEquals(_, _)
InsertBeforeEquals(sorted, r) ==
    IF sorted = <<>>
    THEN <<r>>
    ELSE IF RatLess(r.relevance_score, Head(sorted).relevance_score)
         THEN <<Head(sorted)>> \o InsertBeforeEquals(Tail(sorted), r)
         ELSE <<r>> \o sorted

\* sorted(..., key = relevance_score, reverse = True): a stable sort, so an
\* entry goes behind every entry already placed whose score is not smaller.
RECURSIVE InsertByScore(_, _)
InsertByScore(sorted, r) ==
    IF sorted = <<>>
    THEN <<r>>
    ELSE IF RatLess(Head(sorted).relevance_score, r.relevance_score)
         THEN <<r>> \o sorted
         ELSE <<Head(sorted)>> \o InsertByScore(Tail(sorted), r)

RECURSIVE SortedByScore(_, _)
SortedByScore(cv_results, k) ==
    IF k = 0
    THEN <<>>
    ELSE InsertByScore(SortedByScore(cv_results, k - 1), cv_results[k])

\* seq[:n]
SliceTo(seq, n) ==
    LET stop == IF n < 0 THEN Max(0, Len(seq) + n) ELSE Min(n, Len(seq))
    IN  SubSeq(seq, 1, stop)

get_top_matching_cvs(cv_results, n) ==
    SliceTo(SortedByScore(cv_results, Len(cv_results)), n)

(***************************************************************************)
(* The ranking specification: the function applied to a batch's results.   *)
(* The entries carry distinct file names F1, F2, ... in batch order.       *)
(***************************************************************************)
MaxRankLen == 4

RankScores == {<<1, 10>>, <<2, 10>>, <<9, 10>>}

NoTop == <<[cv_filename |-> 0, relevance_score |-> NoScore]>>

RankIdle ==
    /\ rank_results = <<>>
    /\ top_n = 0
    /\ top = NoTop

RankInit ==
    /\ \E scores \in SeqsUpTo(RankScores, MaxRankLen) :
          rank_results = [k \in 1..Len(scores) |->
                            [cv_filename |-> k, relevance_score |-> scores[k]]]
    /\ top_n \in (-1)..(MaxRankLen + 1)
    /\ top = NoTop

GetTopMatchingCvs ==
    /\ top = NoTop
    /\ top' = get_top_matching_cvs(rank_results, top_n)
    /\ UNCHANGED <<rank_results, top_n>>
    /\ UNCHANGED notRank

(***************************************************************************)
(* The analysis engine.                                                    *)
(***************************************************************************)
\* str.strip(): spaces are the whitespace of the model's alphabet
RECURSIVE LStrip(_)
LStrip(s) ==
    IF s # <<>> /\ Head(s) = Ord.space THEN LStrip(Tail(s)) ELSE s

RECURSIVE RStrip(_)
RStrip(s) ==
    IF s # <<>> /\ s[Len(s)] = Ord.space THEN RStrip(SubSeq(s, 1, Len(s) - 1)) ELSE s

Strip(s) == RStrip(LStrip(s))

\* The CV files of the model.  The legacy .doc file is supported by neither
\* extractor's is_supported.
Paths == {"in/a.pdf", "in/b.docx", "old/c.doc"}

Extension(file_path) ==
    CASE file_path = "in/a.pdf" -> ".pdf"
      [] file_path = "in/b.docx" -> ".docx"
      [] file_path = "old/c.doc" -> ".doc"

\* os.path.basename
Basename(file_path) ==
    CASE file_path = "in/a.pdf" -> "a.pdf"
      [] file_path = "in/b.docx" -> "b.docx"
      [] file_path = "old/c.doc" -> "c.doc"

pdf_is_supported(file_path) == Extension(file_path) = ".pdf"
docx_is_supported(file_path) == Extension(file_path) \in {".docx"}

SupportedPaths == {f \in Paths : pdf_is_supported(f) \/ docx_is_supported(f)}

\* What extract_text returns for a file: its 'success' flag and cleaned
\* (stripped) text.  extract_text catches every exception itself.
CleanTexts == {<<>>, <<Ord.A>>, <<Ord.a, Ord.AE>>}
ExtractResults ==
    {[success |-> FALSE, text |-> <<>>]}
    \cup {[success |-> TRUE, text |-> t] : t \in CleanTexts}

CVData(file_path, txt, ok) ==
    [filename |-> Basename(file_path), file_path |-> file_path,
     extracted_text |-> txt, validation_status |-> ok]

CachePut(cache, file_path, entry) ==
    [f \in DOMAIN cache \cup {file_path} |->
        IF f = file_path THEN entry ELSE cache[f]]

\* a lookup that finds nothing
CacheNeverHits(file_path, cache) == FALSE

\* the cache lookup of _load_cv_text, lines 354-357: an entry is a CVData,
\* which is always true as a condition
CacheLookup(file_path, cache) == file_path \in DOMAIN cache

\* a load that keeps no cache entry for a failed extraction
LoadForgettingFailures(file_path, cache, dsk) ==
    IF file_path \in DOMAIN cache
    THEN [text |-> cache[file_path].extracted_text, cache |-> cache,
          invoked |-> FALSE, failed |-> FALSE]
    ELSE IF pdf_is_supported(file_path) \/ docx_is_supported(file_path)
    THEN LET result == dsk[file_path]
         IN  IF result.success
             THEN [text |-> result.text,
                   cache |-> CachePut(cache, file_path,
                                      CVData(file_path, result.text, TRUE)),
                   invoked |-> TRUE, failed |-> FALSE]
             ELSE [text |-> <<>>, cache |-> cache,
                   invoked |-> TRUE, failed |-> TRUE]
    ELSE [text |-> <<>>, cache |-> cache, invoked |-> FALSE, failed |-> FALSE]

\* _load_cv_text: the text returned, the cache afterwards, whether the
\* extractor was invoked, and whether it reported a failure.
_load_cv_text(file_path, cache, dsk) ==
    IF CacheLookup(file_path, cache)
    THEN [text |-> cache[file_path].extracted_text, cache |-> cache,
          invoked |-> FALSE, failed |-> FALSE]
    ELSE IF pdf_is_supported(file_path) \/ docx_is_supported(file_path)
    THEN LET result == dsk[file_path]
         IN  IF result.success
             THEN [text |-> result.text,
                   cache |-> CachePut(cache, file_path,
                                      CVData(file_path, result.text, TRUE)),
                   invoked |-> TRUE, failed |-> FALSE]
             ELSE [text |-> <<>>,
                   cache |-> CachePut(cache, file_path,
                                      CVData(file_path, <<>>, FALSE)),
                   invoked |-> TRUE, failed |-> TRUE]
    ELSE [text |-> <<>>, cache |-> cache, invoked |-> FALSE, failed |-> FALSE]

RunAlgorithm(algorithm, cv_text, keyword, cs) ==
    CASE algorithm = "Brute Force" -> brute_force_search(cv_text, keyword, cs)
      [] algorithm = "Rabin-Karp" -> rabin_karp_search(cv_text, keyword, cs)
      [] algorithm = "KMP" -> kmp_search(cv_text, keyword, cs)
      [] OTHER -> SearchRaised    \* raise ValueError("Unknown algorithm")

AnalysisResult(name, title, algorithm, matched, missing, rel, comparisons, total) ==
    [cv_filename |-> name, job_description |-> title,
     algorithm_used |-> algorithm, matched_keywords |-> matched,
     missing_keywords |-> missing, relevance_score |-> rel,
     comparison_count |-> comparisons, total_keywords |-> total,
     raised |-> FALSE]

AnalysisRaised == [raised |-> TRUE]

\* the for loop of analyze_cv over the keywords
RECURSIVE KeywordLoop(_, _, _, _, _, _, _, _)
KeywordLoop(cv_text, keywords, algorithm, cs, k, matched, missing, comparisons) ==
    IF k > Len(keywords)
    THEN AnalysisResult("", "", algorithm, matched, missing,
                        _calculate_relevance_score(matched, keywords),
                        comparisons, Len(keywords))
    ELSE LET keyword == Strip(keywords[k])
         IN  IF keyword = <<>>
             THEN KeywordLoop(cv_text, keywords, algorithm, cs, k + 1,
                              matched, missing, comparisons)
             ELSE LET result == RunAlgorithm(algorithm, cv_text, keyword, cs)
                  IN  IF result.raised
                      THEN AnalysisRaised
                      ELSE IF result.matches # <<>>
                      THEN KeywordLoop(cv_text, keywords, algorithm, cs, k + 1,
                                       Append(matched, keyword), missing,
                                       comparisons + result.comparisons)
                      ELSE KeywordLoop(cv_text, keywords, algorithm, cs, k + 1,
                                       matched, Append(missing, keyword),
                                       comparisons + result.comparisons)

\* a scoring that runs the keyword loop whatever its inputs
AnalyzeWithoutValidation(cv_text, keywords, algorithm, cs) ==
    KeywordLoop(cv_text, keywords, algorithm, cs, 1, <<>>, <<>>, 0)

analyze_cv(cv_text, keywords, algorithm, cs) ==
    IF cv_text = <<>> \/ keywords = <<>>
    THEN AnalysisResult("", "", algorithm, <<>>, keywords, RatZero, 0,
                        Len(keywords))
    ELSE KeywordLoop(cv_text, keywords, algorithm, cs, 1, <<>>, <<>>, 0)

\* a placeholder that reports no keyword as missing
ResultWithoutMissing(cv_file, job, algorithm) ==
    AnalysisResult(Basename(cv_file), job.title, algorithm, <<>>,
                   <<>>, RatZero, 0, Len(job.keywords))

\* the zero-score result of analyze_multiple_cvs for a file without usable
\* text or whose processing raised
ErrorResult(cv_file, job, algorithm) ==
    AnalysisResult(Basename(cv_file), job.title, algorithm, <<>>,
                   job.keywords, RatZero, 0, Len(job.keywords))

\* the for loop of analyze_multiple_cvs over the files: the results, the
\* cache afterwards and the loads made
RECURSIVE BatchLoop(_, _, _, _, _, _, _, _, _)
BatchLoop(cv_files, k, job, algorithm, cs, dsk, cache, cv_results, loads) ==
    IF k > Len(cv_files)
    THEN [cv_results |-> cv_results, cache |-> cache, loads |-> loads]
    ELSE LET cv_file == cv_files[k]
             load == _load_cv_text(cv_file, cache, dsk)
             entry == [file_path |-> cv_file, text |-> load.text,
                       invoked |-> load.invoked, failed |-> load.failed]
             analysed == analyze_cv(load.text, job.keywords, algorithm, cs)
             result ==
                 IF load.text = <<>> \/ Strip(load.text) = <<>>
                 THEN ErrorResult(cv_file, job, algorithm)
                 ELSE IF analysed.raised
                 THEN ErrorResult(cv_file, job, algorithm)
                 ELSE [analysed EXCEPT !.cv_filename = Basename(cv_file),
                                       !.job_description = job.title]
         IN  BatchLoop(cv_files, k + 1, job, algorithm, cs, dsk, load.cache,
                       Append(cv_results, result), Append(loads, entry))

RECURSIVE RatSum(_, _)
RatSum(scores, k) ==
    IF k = 0 THEN RatZero ELSE RatAdd(RatSum(scores, k - 1), scores[k])

\* the mean over every CV of the batch, the zero scores included
MeanOverAll(cv_results) ==
    LET scores == [k \in 1..Len(cv_results) |-> cv_results[k].relevance_score]
        total == RatSum(scores, Len(scores))
    IN  IF cv_results # <<>>
        THEN RatDiv(total, Len(cv_results))
        ELSE RatZero

\* the batch statistics of analyze_multiple_cvs
AverageRelevanceScore(cv_results) ==
    LET valid_results == SelectSeq(cv_results,
                                   LAMBDA r : RatPositive(r.relevance_score))
        scores == [k \in 1..Len(valid_results) |->
                      valid_results[k].relevance_score]
        total == RatSum(scores, Len(scores))
    IN  IF valid_results # <<>>
        THEN RatDiv(total, Len(valid_results))
        ELSE RatZero

BatchAnalysisResult(job, algorithm, cv_results, cv_files) ==
    [job_description |-> job, algorithm_used |-> algorithm,
     cv_results |-> cv_results,
     average_relevance_score |-> AverageRelevanceScore(cv_results),
     total_cvs_analyzed |-> Len(cv_files)]

analyze_multiple_cvs(cv_files, job, algorithm, cs, dsk, cache) ==
    LET run == BatchLoop(cv_files, 1, job, algorithm, cs, dsk, cache, <<>>, <<>>)
    IN  [batch |-> BatchAnalysisResult(job, algorithm, run.cv_results, cv_files),
         cache |-> run.cache, loads |-> run.loads]

(***************************************************************************)
(* The engine specification.  A session uses one request (job description, *)
(* algorithm, case sensitivity) and one file system content (what the      *)
(* extractors return for each supported file), both drawn at the start;    *)
(* the operations are cache-aware loads, batch runs and cache clears.      *)
(* load_log, failed_paths and last_call record the last operation's loads, *)
(* the paths whose extraction failed since the last clear, and the last    *)
(* operation's arguments.                                                  *)
(***************************************************************************)
\* the work of a session: each batch run counts one, plus one for each of
\* its files
MaxWork == 3

Jobs ==
    {[id |-> 1, title |-> "dev",
      keywords |-> <<<<Ord.a>>, <<Ord.space, Ord.AE, Ord.space>>, <<Ord.space>>>>],
     [id |-> 2, title |-> "none", keywords |-> <<>>]}

AlgorithmChoices == AlgorithmNames \cup {"Quick"}

NoCall == [op |-> "none", cv_files |-> <<>>]

EmptyCache == [f \in {} |-> CVData(f, <<>>, FALSE)]

EngineIdle ==
    /\ request = [job_description |-> [id |-> 0, title |-> "", keywords |-> <<>>],
                  algorithm |-> "", case_sensitive |-> FALSE]
    /\ disk = [f \in {} |-> [success |-> FALSE, text |-> <<>>]]
    /\ cv_cache = EmptyCache
    /\ analysis_history = <<>>
    /\ failed_paths = {}
    /\ load_log = <<>>
    /\ last_call = NoCall

EngineInit ==
    /\ request \in [job_description : Jobs, algorithm : AlgorithmChoices,
                    case_sensitive : BOOLEAN]
    /\ disk \in [SupportedPaths -> ExtractResults]
    /\ cv_cache = EmptyCache
    /\ analysis_history = <<>>
    /\ failed_paths = {}
    /\ load_log = <<>>
    /\ last_call = NoCall

\* each load of an operation, with whether its path had already failed
\* extraction since the last clear
RECURSIVE LogLoads(_, _, _)
LogLoads(loads, k, failed) ==
    IF k > Len(loads)
    THEN <<>>
    ELSE <<[file_path |-> loads[k].file_path, text |-> loads[k].text,
            invoked |-> loads[k].invoked,
            failed_before |-> loads[k].file_path \in failed]>>
         \o LogLoads(loads, k + 1,
                     IF loads[k].failed THEN failed \cup {loads[k].file_path}
                     ELSE failed)

FailedIn(loads) == {loads[k].file_path : k \in {i \in 1..Len(loads) : loads[i].failed}}

LoadCvText ==
    \E file_path \in Paths :
        LET load == _load_cv_text(file_path, cv_cache, disk)
            loads == <<[file_path |-> file_path, text |-> load.text,
                        invoked |-> load.invoked, failed |-> load.failed]>>
        IN  /\ cv_cache' = load.cache
            /\ load_log' = LogLoads(loads, 1, failed_paths)
            /\ failed_paths' = failed_paths \cup FailedIn(loads)
            /\ last_call' = [op |-> "load", cv_files |-> <<file_path>>]
            /\ UNCHANGED <<request, disk, analysis_history>>
            /\ UNCHANGED notEngine

RECURSIVE Work(_)
Work(history) ==
    IF history = <<>>
    THEN 0
    ELSE LET n == Len(history)
         IN  Work(SubSeq(history, 1, n - 1)) + 1 + history[n].total_cvs_analyzed

AnalyzeMultipleCvs ==
    /\ Work(analysis_history) < MaxWork
    /\ \E cv_files \in SeqsUpTo(Paths, MaxWork - Work(analysis_history) - 1) :
        LET run == analyze_multiple_cvs(cv_files, request.job_description,
                                        request.algorithm, request.case_sensitive,
                                        disk, cv_cache)
        IN  /\ cv_cache' = run.cache
            /\ analysis_history' = Append(analysis_history, run.batch)
            /\ load_log' = LogLoads(run.loads, 1, failed_paths)
            /\ failed_paths' = failed_paths \cup FailedIn(run.loads)
            /\ last_call' = [op |-> "analyze", cv_files |-> cv_files]
            /\ UNCHANGED <<request, disk>>
    /\ UNCHANGED notEngine

\* clear_cache
ClearCache ==
    /\ cv_cache' = EmptyCache
    /\ failed_paths' = {}
    /\ load_log' = <<>>
    /\ last_call' = [op |-> "clear", cv_files |-> <<>>]
    /\ UNCHANGED <<request, disk, analysis_history>>
    /\ UNCHANGED notEngine

\* a session whose files change on disk between the operations: one request,
\* any content at the start
CacheInit ==
    /\ request = [job_description |->
                      CHOOSE job \in Jobs : job.keywords # <<>>,
                  algorithm |-> "KMP", case_sensitive |-> FALSE]
    /\ disk \in [SupportedPaths -> ExtractResults]
    /\ cv_cache = EmptyCache
    /\ analysis_history = <<>>
    /\ failed_paths = {}
    /\ load_log = <<>>
    /\ last_call = NoCall

\* a file is rewritten, repaired or damaged on disk: the extractors of
\* lines 369 and 400 read the file anew at each call
RewriteFile ==
    /\ \E f \in SupportedPaths, result \in ExtractResults :
          /\ disk[f] # result
          /\ disk' = [disk EXCEPT ![f] = result]
    /\ UNCHANGED <<request, cv_cache, analysis_history, failed_paths,
                   load_log, last_call>>
    /\ UNCHANGED notEngine

(***************************************************************************)
(* The persistence store: the three tables as sets of rows, and the        *)
(* AUTOINCREMENT counter of each.  Foreign keys are declared but SQLite    *)
(* does not enforce them unless asked to, and the code never asks.         *)
(***************************************************************************)
NextId(table) == next_id[table] + 1

add_job_description(jobs, id, title) ==
    jobs \cup {[id |-> id, title |-> title]}

save_analysis_result(rows, id, cv_filename, job_description_id, algorithm_used) ==
    rows \cup {[id |-> id, cv_filename |-> cv_filename,
                job_description_id |-> job_description_id,
                algorithm_used |-> algorithm_used]}

save_batch_analysis_result(rows, id, job_description_id, algorithm_used) ==
    rows \cup {[id |-> id, job_description_id |-> job_description_id,
                algorithm_used |-> algorithm_used]}

\* the three DELETE statements of delete_job_description
DeleteAnalysisResults(rows, job_id) ==
    {r \in rows : r.job_description_id # job_id}

\* a delete that leaves the batch summaries in place
KeepRows(rows, job_id) == rows

DeleteBatchResults(rows, job_id) ==
    {r \in rows : r.job_description_id # job_id}

DeleteJob(jobs, job_id) ==
    {j \in jobs : j.id # job_id}

(***************************************************************************)
(* The store specification: job descriptions are added and deleted, and    *)
(* per-CV and per-batch results are recorded under any job id.  last_op    *)
(* records the last operation.                                             *)
(***************************************************************************)
MaxJobs == 2
MaxRows == 2

JobTitles == {"dev"}
StoredAlgorithms == {"KMP"}
StoredFiles == {"a.pdf"}

NoOp == [op |-> "none", job_id |-> 0]

StoreInit ==
    /\ job_descriptions = {}
    /\ analysis_rows = {}
    /\ batch_rows = {}
    /\ next_id = [jobs |-> 0, results |-> 0, batches |-> 0]
    /\ last_op = NoOp

AddJobDescription ==
    /\ next_id.jobs < MaxJobs
    /\ \E title \in JobTitles :
          job_descriptions' =
              add_job_description(job_descriptions, NextId("jobs"), title)
    /\ next_id' = [next_id EXCEPT !.jobs = NextId("jobs")]
    /\ last_op' = [op |-> "add_job", job_id |-> NextId("jobs")]
    /\ UNCHANGED <<analysis_rows, batch_rows>>
    /\ UNCHANGED notStore

SaveAnalysisResult ==
    /\ next_id.results < MaxRows
    /\ \E job_id \in 0..MaxJobs, algo \in StoredAlgorithms, f \in StoredFiles :
          /\ analysis_rows' = save_analysis_result(analysis_rows,
                                  NextId("results"), f, job_id, algo)
          /\ last_op' = [op |-> "save_result", job_id |-> job_id]
    /\ next_id' = [next_id EXCEPT !.results = NextId("results")]
    /\ UNCHANGED <<job_descriptions, batch_rows>>
    /\ UNCHANGED notStore

SaveBatchAnalysisResult ==
    /\ next_id.batches < MaxRows
    /\ \E job_id \in 0..MaxJobs, algo \in StoredAlgorithms :
          /\ batch_rows' = save_batch_analysis_result(batch_rows,
                               NextId("batches"), job_id, algo)
          /\ last_op' = [op |-> "save_batch", job_id |-> job_id]
    /\ next_id' = [next_id EXCEPT !.batches = NextId("batches")]
    /\ UNCHANGED <<job_descriptions, analysis_rows>>
    /\ UNCHANGED notStore

DeleteJobDescription ==
    \E job_id \in 0..MaxJobs :
        /\ analysis_rows' = DeleteAnalysisResults(analysis_rows, job_id)
        /\ batch_rows' = DeleteBatchResults(batch_rows, job_id)
        /\ job_descriptions' = DeleteJob(job_descriptions, job_id)
        /\ last_op' = [op |-> "delete_job", job_id |-> job_id]
        /\ UNCHANGED next_id
        /\ UNCHANGED notStore

(***************************************************************************)
(* The desktop GUI: the UI thread's handlers and the worker threads.       *)
(*                                                                         *)
(* A worker is a record: its kind and algorithm, whether its thread is     *)
(* running, where its run() stands (pc), the compare-all loop index, the   *)
(* interruption flag, the notifications emitted, whether deleteLater has   *)
(* been called on it and whether the object has been destroyed.            *)
(* ui_queue is the UI thread's event queue: the queued notifications of    *)
(* the workers and the deferred deletions.  A handler that waits for a     *)
(* worker (QThread.wait) leaves the UI thread at ui_pc until the wait      *)
(* returns; the worker goes on running meanwhile.                          *)
(***************************************************************************)
MaxWorkers == 3

NoWorker == {}

\* the CV files loaded in the main window
GuiFiles == <<"a.pdf", "b.docx">>

\* file is the position in cv_files of the file analyze_multiple_cvs is
\* scoring (0 outside the call); trace lists what run() has done: the
\* progress notifications, the calls of analyze_multiple_cvs and how each
\* ended
NewWorker(kind, algorithm) ==
    [kind |-> kind, algorithm |-> algorithm, running |-> TRUE, pc |-> "begin",
     idx |-> 0, file |-> 0, interruption_requested |-> FALSE,
     emitted |-> <<>>, trace |-> <<>>,
     delete_later |-> FALSE, destroyed |-> FALSE]

\* QThread.requestInterruption: only a running thread takes the request
requestInterruption(worker) ==
    IF worker.running
    THEN [worker EXCEPT !.interruption_requested = TRUE]
    ELSE worker

\* QThread.terminate followed by wait(): the thread is gone wherever it stood
terminate(worker) ==
    [worker EXCEPT !.running = FALSE, !.pc = "gone"]

\* QObject.deleteLater: posts one deferred deletion
deleteLater(worker) == [worker EXCEPT !.delete_later = TRUE]

\* the destruction of the worker object: nothing of its state outlives it
Destroyed(worker) ==
    [NewWorker(worker.kind, worker.algorithm) EXCEPT
        !.running = FALSE, !.pc = "gone", !.delete_later = TRUE,
        !.destroyed = TRUE]

DeferredDelete(w) == [type |-> "deferred_delete", worker |-> w]

PostDelete(queue, w) ==
    IF workers[w].delete_later THEN queue ELSE Append(queue, DeferredDelete(w))

\* ---- AnalysisWorker.run and CompareAllWorker.run ----

\* the check before a unit of work: AnalysisWorker checks once before
\* starting, CompareAllWorker before each algorithm
\* the progress notification and the algorithm of the next call
ProgressOf(worker) ==
    IF worker.kind = "single"
    THEN <<"progress", 0, Len(GuiFiles)>>
    ELSE <<"progress", worker.idx + 1, Len(Algorithms)>>

AlgorithmOf(worker) ==
    IF worker.kind = "single" THEN worker.algorithm
    ELSE Algorithms[worker.idx + 1]

\* a unit of work begun without looking at the interruption flag
BeginUnchecked(worker) ==
    [worker EXCEPT
        !.pc = "analyze", !.file = 1,
        !.emitted = Append(worker.emitted, ProgressOf(worker)),
        !.trace = worker.trace \o <<ProgressOf(worker),
                                     <<"call", AlgorithmOf(worker)>>>>]

BeginStep(worker) ==
    IF worker.interruption_requested
    THEN [worker EXCEPT !.pc = "exit"]
    ELSE [worker EXCEPT
            !.pc = "analyze", !.file = 1,
            !.emitted = Append(worker.emitted, ProgressOf(worker)),
            !.trace = worker.trace \o <<ProgressOf(worker),
                                         <<"call", AlgorithmOf(worker)>>>>]

\* analyze_multiple_cvs goes on to its next file
NextFile(worker) == [worker EXCEPT !.file = worker.file + 1]

\* analyze_multiple_cvs returned
AnalyzeReturned(worker) ==
    LET returned == [worker EXCEPT
                       !.file = 0,
                       !.trace = Append(worker.trace,
                                        <<"return", AlgorithmOf(worker)>>)]
    IN  IF worker.kind = "single"
        THEN [returned EXCEPT !.pc = "check"]
        ELSE IF worker.idx + 1 < Len(Algorithms)
        THEN [returned EXCEPT !.idx = worker.idx + 1, !.pc = "begin"]
        ELSE [returned EXCEPT !.idx = worker.idx + 1, !.pc = "check"]

\* analyze_multiple_cvs raised
AnalyzeRaised(worker) ==
    [worker EXCEPT !.pc = "except", !.file = 0,
                   !.trace = Append(worker.trace, <<"raise">>)]

\* results: the algorithms whose batch the compare-all worker holds
ResultsOf(worker) ==
    LET returns == SelectSeq(worker.trace, LAMBDA e : e[1] = "return")
    IN  [k \in 1..Len(returns) |-> returns[k][2]]

\* a check that does not look at the interruption flag
Proceed(worker) == [worker EXCEPT !.pc = "emit"]

\* the check before the completion is emitted
CheckStep(worker) ==
    IF worker.interruption_requested
    THEN [worker EXCEPT !.pc = "exit"]
    ELSE [worker EXCEPT !.pc = "emit"]

\* a handler that reports the error whatever the interruption flag
ReportError(worker) == [worker EXCEPT !.pc = "emit_error"]

\* the check of the exception handler
ExceptStep(worker) ==
    IF ~worker.interruption_requested
    THEN [worker EXCEPT !.pc = "emit_error"]
    ELSE [worker EXCEPT !.pc = "exit"]

Running(w) == w \in 1..Len(workers) /\ workers[w].running

At(w, pc) == Running(w) /\ workers[w].pc = pc

WorkerBegin(w) ==
    /\ At(w, "begin")
    /\ workers' = [workers EXCEPT ![w] = BeginStep(workers[w])]
    /\ UNCHANGED <<analysis_worker, ui_queue, ui_pc, start_analysis_btn,
                   stop_analysis_btn, analysis_results, dbVars>>
    /\ UNCHANGED notGui

WorkerAnalyze(w) ==
    /\ At(w, "analyze")
    /\ \/ /\ workers[w].file < Len(GuiFiles)
          /\ workers' = [workers EXCEPT ![w] = NextFile(workers[w])]
       \/ /\ workers[w].file = Len(GuiFiles)
          /\ workers' = [workers EXCEPT ![w] = AnalyzeReturned(workers[w])]
       \/ workers' = [workers EXCEPT ![w] = AnalyzeRaised(workers[w])]
    /\ UNCHANGED <<analysis_worker, ui_queue, ui_pc, start_analysis_btn,
                   stop_analysis_btn, analysis_results, dbVars>>
    /\ UNCHANGED notGui

WorkerCheck(w) ==
    /\ At(w, "check")
    /\ workers' = [workers EXCEPT ![w] = CheckStep(workers[w])]
    /\ UNCHANGED <<analysis_worker, ui_queue, ui_pc, start_analysis_btn,
                   stop_analysis_btn, analysis_results, dbVars>>
    /\ UNCHANGED notGui

\* analysisFinished.emit / compareFinished.emit
WorkerEmit(w) ==
    /\ At(w, "emit")
    /\ workers' = [workers EXCEPT
                     ![w].pc = "exit",
                     ![w].emitted = Append(workers[w].emitted, <<"finished">>)]
    /\ ui_queue' = Append(ui_queue, [type |-> "completed", worker |-> w])
    /\ UNCHANGED <<analysis_worker, ui_pc, start_analysis_btn,
                   stop_analysis_btn, analysis_results, dbVars>>
    /\ UNCHANGED notGui

WorkerExcept(w) ==
    /\ At(w, "except")
    /\ workers' = [workers EXCEPT ![w] = ExceptStep(workers[w])]
    /\ UNCHANGED <<analysis_worker, ui_queue, ui_pc, start_analysis_btn,
                   stop_analysis_btn, analysis_results, dbVars>>
    /\ UNCHANGED notGui

\* error.emit
WorkerEmitError(w) ==
    /\ At(w, "emit_error")
    /\ workers' = [workers EXCEPT
                     ![w].pc = "exit",
                     ![w].emitted = Append(workers[w].emitted, <<"error">>)]
    /\ ui_queue' = Append(ui_queue, [type |-> "error", worker |-> w])
    /\ UNCHANGED <<analysis_worker, ui_pc, start_analysis_btn,
                   stop_analysis_btn, analysis_results, dbVars>>
    /\ UNCHANGED notGui

\* run() has returned: the thread stops running and its finished signal
\* calls deleteLater on the worker
WorkerFinish(w) ==
    /\ At(w, "exit")
    /\ workers' = [workers EXCEPT ![w] = deleteLater([@ EXCEPT !.running = FALSE])]
    /\ ui_queue' = PostDelete(ui_queue, w)
    /\ UNCHANGED <<analysis_worker, ui_pc, start_analysis_btn,
                   stop_analysis_btn, analysis_results, dbVars>>
    /\ UNCHANGED notGui

\* ---- the UI thread's handlers ----

Idle == [handler |-> "idle"]

GuiAlgorithms == {"KMP", "Compare All"}

\* the worker the handlers' analysis_worker attribute refers to, if any
Referenced == analysis_worker # NoWorker
TheWorker == CHOOSE w \in analysis_worker : TRUE

\* run_single_analysis / run_comparative_analysis once the previous worker,
\* if any, has been dealt with: release it, create the new worker, switch
\* the controls and start the thread
LaunchWorker(algorithm, ws, queue) ==
    LET kind == IF algorithm = "Compare All" THEN "compare" ELSE "single"
    IN  /\ workers' = Append(ws, NewWorker(kind, algorithm))
        /\ analysis_worker' = {Len(ws) + 1}
        /\ ui_queue' = queue
        /\ start_analysis_btn' = FALSE
        /\ stop_analysis_btn' = TRUE
        /\ ui_pc' = Idle

\* start_analysis with the files loaded and a job description selected
StartAnalysis ==
    /\ ui_pc = Idle
    /\ start_analysis_btn
    /\ Len(workers) < MaxWorkers
    /\ \E algorithm \in GuiAlgorithms :
        IF Referenced
        THEN IF workers[TheWorker].running
             THEN \* requestInterruption(); wait(2000)
                  /\ workers' = [workers EXCEPT
                                   ![TheWorker] = requestInterruption(@)]
                  /\ ui_pc' = [handler |-> "start_wait", algorithm |-> algorithm]
                  /\ UNCHANGED <<analysis_worker, ui_queue, start_analysis_btn,
                                 stop_analysis_btn>>
             ELSE LaunchWorker(algorithm,
                               [workers EXCEPT ![TheWorker] = deleteLater(@)],
                               PostDelete(ui_queue, TheWorker))
        ELSE LaunchWorker(algorithm, workers, ui_queue)
    /\ UNCHANGED <<analysis_results, dbVars>>
    /\ UNCHANGED notGui

\* wait(2000) returns: the worker has stopped by itself, or it has not and
\* is terminated
StartWaitReturn ==
    /\ ui_pc.handler = "start_wait"
    /\ LET w == TheWorker
           stopped == IF workers[w].running THEN terminate(workers[w])
                      ELSE workers[w]
       IN  LaunchWorker(ui_pc.algorithm,
                        [workers EXCEPT ![w] = deleteLater(stopped)],
                        PostDelete(ui_queue, w))
    /\ UNCHANGED <<analysis_results, dbVars>>
    /\ UNCHANGED notGui

\* the end of stop_analysis: drop the reference and reset the controls
StopDone ==
    /\ analysis_worker' = NoWorker
    /\ start_analysis_btn' = TRUE
    /\ stop_analysis_btn' = FALSE
    /\ ui_pc' = Idle

StopAnalysis ==
    /\ ui_pc = Idle
    /\ stop_analysis_btn
    /\ IF Referenced /\ ~workers[TheWorker].destroyed
       THEN IF workers[TheWorker].running
            THEN \* requestInterruption(); wait(5000)
                 /\ workers' = [workers EXCEPT
                                  ![TheWorker] = requestInterruption(@)]
                 /\ ui_pc' = [handler |-> "stop_wait"]
                 /\ UNCHANGED <<analysis_worker, ui_queue, start_analysis_btn,
                                stop_analysis_btn>>
            ELSE /\ workers' = [workers EXCEPT ![TheWorker] = deleteLater(@)]
                 /\ ui_queue' = PostDelete(ui_queue, TheWorker)
                 /\ StopDone
       ELSE /\ UNCHANGED <<workers, ui_queue>>
            /\ StopDone
    /\ UNCHANGED <<analysis_results, dbVars>>
    /\ UNCHANGED notGui

StopWaitReturn ==
    /\ ui_pc.handler = "stop_wait"
    /\ LET w == TheWorker
           stopped == IF workers[w].running THEN terminate(workers[w])
                      ELSE workers[w]
       IN  /\ workers' = [workers EXCEPT ![w] = deleteLater(stopped)]
           /\ ui_queue' = PostDelete(ui_queue, w)
    /\ StopDone
    /\ UNCHANGED <<analysis_results, dbVars>>
    /\ UNCHANGED notGui

\* _save_results_to_database: the batch summary, then one row per CV result
GuiJobId == 1

RECURSIVE SaveCvResults(_, _, _, _, _)
SaveCvResults(rows, last_id, k, job_id, algorithm) ==
    IF k > Len(GuiFiles)
    THEN rows
    ELSE SaveCvResults(
             save_analysis_result(rows, last_id + k, GuiFiles[k], job_id, algorithm),
             last_id, k + 1, job_id, algorithm)

_save_results_to_database(db, job_id, algorithm) ==
    [batches |-> save_batch_analysis_result(db.batches, db.next.batches + 1,
                                            job_id, algorithm),
     results |-> SaveCvResults(db.results, db.next.results, 1, job_id, algorithm),
     next |-> [db.next EXCEPT !.batches = @ + 1,
                              !.results = @ + Len(GuiFiles)]]

\* the loop of _on_compare_all_finished over the algorithms' batches
RECURSIVE SaveAll(_, _, _)
SaveAll(db, job_id, k) ==
    IF k > Len(Algorithms)
    THEN db
    ELSE SaveAll(_save_results_to_database(db, job_id, Algorithms[k]),
                 job_id, k + 1)

Store == [batches |-> batch_rows, results |-> analysis_rows, next |-> next_id]

Persist(db) ==
    /\ batch_rows' = db.batches
    /\ analysis_rows' = db.results
    /\ next_id' = db.next
    /\ UNCHANGED <<job_descriptions, last_op>>

\* the controls after a handler has reset them
ControlsReady == [start |-> TRUE, stop |-> FALSE]

ControlsStarted == [start |-> FALSE, stop |-> TRUE]

CompletedControls == ControlsReady
CompareFinishedControls == ControlsReady
ErrorControls == ControlsReady

SetControls(c) ==
    /\ start_analysis_btn' = c.start
    /\ stop_analysis_btn' = c.stop

NextEvent(type) ==
    /\ ui_pc = Idle
    /\ ui_queue # <<>>
    /\ Head(ui_queue).type = type

\* on_analysis_completed, for the analysisFinished of a single-algorithm worker
OnAnalysisCompleted ==
    /\ NextEvent("completed")
    /\ LET w == Head(ui_queue).worker
       IN  /\ workers[w].kind = "single"
           /\ analysis_results' = [a \in {workers[w].algorithm} |-> w]
           /\ Persist(_save_results_to_database(Store, GuiJobId,
                                                workers[w].algorithm))
    /\ SetControls(CompletedControls)
    /\ ui_queue' = Tail(ui_queue)
    /\ UNCHANGED <<analysis_worker, workers, ui_pc>>
    /\ UNCHANGED notGui

\* _on_compare_all_finished, for the compareFinished of a compare-all worker
OnCompareAllFinished ==
    /\ NextEvent("completed")
    /\ LET w == Head(ui_queue).worker
       IN  /\ workers[w].kind = "compare"
           /\ analysis_results' = [a \in AlgorithmNames |-> w]
           /\ Persist(SaveAll(Store, GuiJobId, 1))
    /\ SetControls(CompareFinishedControls)
    /\ ui_queue' = Tail(ui_queue)
    /\ UNCHANGED <<analysis_worker, workers, ui_pc>>
    /\ UNCHANGED notGui

\* on_analysis_error
OnAnalysisError ==
    /\ NextEvent("error")
    /\ SetControls(ErrorControls)
    /\ ui_queue' = Tail(ui_queue)
    /\ UNCHANGED <<analysis_worker, workers, ui_pc, analysis_results, dbVars>>
    /\ UNCHANGED notGui

\* the deferred deletion of a worker: the object is destroyed and its
\* destroyed signal runs the lambda that clears analysis_worker
WorkerDestroyed ==
    /\ NextEvent("deferred_delete")
    /\ LET w == Head(ui_queue).worker
       IN  workers' = [workers EXCEPT ![w] = Destroyed(@)]
    /\ analysis_worker' = NoWorker
    /\ ui_queue' = Tail(ui_queue)
    /\ UNCHANGED <<ui_pc, start_analysis_btn, stop_analysis_btn,
                   analysis_results, dbVars>>
    /\ UNCHANGED notGui

\* ---- the job descriptions of a session, and the analysis under way ----
\* current_job_description is the id of the job description selected in the
\* main window (0: None); running_job is the id of the job description the
\* running worker was created with (0: no analysis under way).
JobsInit ==
    /\ job_descriptions = {}
    /\ analysis_rows = {}
    /\ batch_rows = {}
    /\ next_id = [jobs |-> 0, results |-> 0, batches |-> 0]
    /\ last_op = NoOp
    /\ SessionIdle

jobsFrame == <<searchVars, scoreVars, rankVars, engineVars, guiVars,
               cliVars, analyzeVars, fileVars, csvVars, callerVars, loopVars>>

\* save_job_description: the job is added, the list refreshed and the new
\* job selected
SaveJobDescription ==
    /\ next_id.jobs < MaxJobs
    /\ \E title \in JobTitles :
          job_descriptions' =
              add_job_description(job_descriptions, NextId("jobs"), title)
    /\ next_id' = [next_id EXCEPT !.jobs = NextId("jobs")]
    /\ last_op' = [op |-> "add_job", job_id |-> NextId("jobs")]
    /\ current_job_description' = NextId("jobs")
    /\ UNCHANGED <<analysis_rows, batch_rows>>
    /\ UNCHANGED <<batch_loop, running_job, results_mutex, sections>>
    /\ UNCHANGED jobsFrame

\* on_job_selection_changed: the user selects a job of the list
OnJobSelectionChanged ==
    /\ \E job \in job_descriptions :
          /\ job.id # current_job_description
          /\ current_job_description' = job.id
    /\ UNCHANGED dbVars
    /\ UNCHANGED <<batch_loop, running_job, results_mutex, sections>>
    /\ UNCHANGED jobsFrame

\* delete_job_description of the handlers, the user answering Yes: the
\* store deletes the job's rows and the job, the form is reset
DeleteSelectedJob ==
    /\ current_job_description # 0
    /\ LET job_id == current_job_description
           success == \E job \in job_descriptions : job.id = job_id
       IN  /\ analysis_rows' = DeleteAnalysisResults(analysis_rows, job_id)
           /\ batch_rows' = DeleteBatchResults(batch_rows, job_id)
           /\ job_descriptions' = DeleteJob(job_descriptions, job_id)
           /\ last_op' = [op |-> "delete_job", job_id |-> job_id]
           /\ current_job_description' =
                 IF success THEN 0    \* create_new_job
                 ELSE current_job_description
    /\ UNCHANGED next_id
    /\ UNCHANGED <<batch_loop, running_job, results_mutex, sections>>
    /\ UNCHANGED jobsFrame

\* start_analysis with a job description selected: the worker is created
\* with the selected job description
StartAnalysisOfJob ==
    /\ current_job_description # 0
    /\ running_job = 0
    /\ next_id.batches < MaxRows
    /\ running_job' = current_job_description
    /\ UNCHANGED dbVars
    /\ UNCHANGED <<batch_loop, current_job_description, results_mutex, sections>>
    /\ UNCHANGED jobsFrame

\* on_analysis_completed: the batch of the worker is saved under the id of
\* its job description
CompleteAnalysisOfJob ==
    /\ running_job # 0
    /\ Persist(_save_results_to_database(Store, running_job, "KMP"))
    /\ running_job' = 0
    /\ UNCHANGED <<batch_loop, current_job_description, results_mutex, sections>>
    /\ UNCHANGED jobsFrame

\* ---- the results lock ----
\* A handler that touches main_window.analysis_results goes through
\* results_mutex.lock(), its access, results_mutex.unlock() and the rest of
\* its body; sections[t] says where the handler run by thread t stands.
\* The handlers are run by whichever thread delivers them: the model lets
\* two threads run them at once.  A batch is named by its number.
MaxBatches == 2

Writers == {"on_analysis_completed", "_on_compare_all_finished"}
Readers == {"update_results_tab_comparative", "update_performance_table",
            "export_results_csv"}

\* what a writer assigns: {algorithm: batch_result}, or the batches of a
\* compare-all run
WrittenBy(handler) ==
    IF handler = "on_analysis_completed"
    THEN {[a \in {"KMP"} |-> n] : n \in 1..MaxBatches}
    ELSE IF handler = "_on_compare_all_finished"
    THEN {[a \in AlgorithmNames |-> n] : n \in 1..MaxBatches} \cup {NoResults}
    ELSE {NoResults}

\* a lock that lets every thread in
LockWithoutWaiting(mutex) == TRUE

\* QMutex.lock returns when the mutex is free
lock(mutex) == mutex = "free"

\* dict(mapping): a new mapping with the same entries
dict(mapping) == [a \in DOMAIN mapping |-> mapping[a]]

lockFrame == <<searchVars, scoreVars, rankVars, engineVars, dbVars,
               cliVars, analyzeVars, fileVars, csvVars, callerVars, loopVars>>

otherSession == <<batch_loop, current_job_description, running_job>>

otherGui == <<analysis_worker, workers, ui_queue, ui_pc, start_analysis_btn,
              stop_analysis_btn>>

\* a thread begins one of the handlers
EnterHandler(t) ==
    /\ sections[t].pc = "idle"
    /\ \E handler \in Writers \cup Readers :
        \E value \in WrittenBy(handler) :
          sections' = [sections EXCEPT ![t] =
                          [Outside EXCEPT !.pc = "lock", !.handler = handler,
                                          !.value = value]]
    /\ UNCHANGED <<results_mutex, analysis_results>>
    /\ UNCHANGED <<otherSession, otherGui, lockFrame>>

\* self.results_mutex.lock()
AcquireLock(t) ==
    /\ sections[t].pc = "lock"
    /\ lock(results_mutex)
    /\ results_mutex' = t
    /\ sections' = [sections EXCEPT ![t].pc = "locked"]
    /\ UNCHANGED analysis_results
    /\ UNCHANGED <<otherSession, otherGui, lockFrame>>

\* the statement between lock and unlock: the assignment of a writer, the
\* copy of a reader
AccessResults(t) ==
    /\ sections[t].pc = "locked"
    /\ IF sections[t].handler \in Writers
       THEN /\ analysis_results' = sections[t].value
            /\ sections' = [sections EXCEPT ![t].pc = "unlock"]
       ELSE /\ sections' = [sections EXCEPT
                               ![t].pc = "unlock",
                               ![t].snapshot = dict(analysis_results)]
            /\ UNCHANGED analysis_results
    /\ UNCHANGED results_mutex
    /\ UNCHANGED <<otherSession, otherGui, lockFrame>>

\* self.results_mutex.unlock(), in the finally clause
ReleaseLock(t) ==
    /\ sections[t].pc = "unlock"
    /\ results_mutex' = "free"
    /\ sections' = [sections EXCEPT ![t].pc = "after"]
    /\ UNCHANGED analysis_results
    /\ UNCHANGED <<otherSession, otherGui, lockFrame>>

\* the rest of the handler: a reader fills the tables or the file from
\* results_snapshot, and the handler returns
AfterSection(t) ==
    /\ sections[t].pc = "after"
    /\ sections' = [sections EXCEPT ![t] = Outside]
    /\ UNCHANGED <<results_mutex, analysis_results>>
    /\ UNCHANGED <<otherSession, otherGui, lockFrame>>

HandlerStep(t) ==
    \/ EnterHandler(t)
    \/ AcquireLock(t)
    \/ AccessResults(t)
    \/ ReleaseLock(t)
    \/ AfterSection(t)

GuiIdle ==
    /\ analysis_worker = NoWorker
    /\ workers = <<>>
    /\ ui_queue = <<>>
    /\ ui_pc = Idle
    /\ start_analysis_btn = TRUE
    /\ stop_analysis_btn = FALSE
    /\ analysis_results = [a \in {} |-> 0]

StoreIdle ==
    /\ job_descriptions = {[id |-> GuiJobId, title |-> "dev"]}
    /\ analysis_rows = {}
    /\ batch_rows = {}
    /\ next_id = [jobs |-> GuiJobId, results |-> 0, batches |-> 0]
    /\ last_op = NoOp

(***************************************************************************)
(* The command line: normalize_algorithm and main().                       *)
(*                                                                         *)
(* main() is modelled from the entry of its try block: the application     *)
(* object has been constructed (app.py line 244) and holds the open        *)
(* persistence store.  The body of the selected mode returns, raises an    *)
(* Exception, is interrupted from the keyboard or, in GUI mode, leaves     *)
(* through sys.exit; the except handlers and the finally block run to      *)
(* their end.                                                              *)
(***************************************************************************)
None == "None"

\* the mapping dict of normalize_algorithm, with dict.get's None for a key
\* that is absent
mapping(key) ==
    CASE key = Text(<<"k", "m", "p">>) -> "KMP"
      [] key = Text(<<"r", "a", "b", "i", "n", "-", "k", "a", "r", "p">>) -> "Rabin-Karp"
      [] key = Text(<<"r", "a", "b", "i", "n", "k", "a", "r", "p">>) -> "Rabin-Karp"
      [] key = Text(<<"r", "a", "b", "i", "n">>) -> "Rabin-Karp"
      [] key = Text(<<"r", "k">>) -> "Rabin-Karp"
      [] key = Text(<<"b", "r", "u", "t", "e", " ", "f", "o", "r", "c", "e">>) -> "Brute Force"
      [] key = Text(<<"b", "r", "u", "t", "e", "f", "o", "r", "c", "e">>) -> "Brute Force"
      [] key = Text(<<"b", "r", "u", "t", "e">>) -> "Brute Force"
      [] key = Text(<<"b", "f">>) -> "Brute Force"
      [] key = Text(<<"c", "o", "m", "p", "a", "r", "e", " ", "a", "l", "l">>) -> "Compare All"
      [] key = Text(<<"c", "o", "m", "p", "a", "r", "e">>) -> "Compare All"
      [] key = Text(<<"a", "l", "l">>) -> "Compare All"
      [] OTHER -> None

\* a normalisation that looks the name up as typed, without folding its case
NormalizeAsTyped(name) ==
    IF ~name.str
    THEN None
    ELSE mapping(Strip(name.chars))

\* normalize_algorithm; name.str tells whether the argument is a str
normalize_algorithm(name) ==
    IF ~name.str
    THEN None
    ELSE mapping(Lower(Strip(name.chars)))

\* _get(flag, default) of main for the --algorithm flag: the value that
\* follows the flag, the default when the flag is absent or comes last
_get(args, default) ==
    IF args.flag = "value" THEN args.value ELSE default

\* DatabaseManager.close
close(db) ==
    IF db.connection = "open" THEN [db EXCEPT !.connection = "closed"] ELSE db

\* a clean-up that leaves the store as it is
CleanupNothing(a) == a

\* CVAnalyzerApp.cleanup
cleanup(a) == [a EXCEPT !.db = close(a.db)]

NoException == [type |-> "none", code |-> 0]
SystemExit(code) == [type |-> "SystemExit", code |-> code]

Modes == {"--performance", "--report", "--analyze", "--gui", "--help",
          "--other", "no argument"}

\* how the body of a mode can end
BodyOutcomes(mode) ==
    {"returned", "Exception", "KeyboardInterrupt"}
    \cup (IF mode = "--gui" THEN {"SystemExit"} ELSE {})

\* the names given on the command line: the aliases of the table, each also
\* in capitals, with a capital initial and padded with spaces, and names
\* that are no alias
Aliases ==
    [KMP |-> {Text(<<"k", "m", "p">>)},
     RabinKarp |-> {Text(<<"r", "a", "b", "i", "n", "-", "k", "a", "r", "p">>),
                    Text(<<"r", "a", "b", "i", "n", "k", "a", "r", "p">>),
                    Text(<<"r", "a", "b", "i", "n">>),
                    Text(<<"r", "k">>)},
     BruteForce |-> {Text(<<"b", "r", "u", "t", "e", " ", "f", "o", "r", "c", "e">>),
                     Text(<<"b", "r", "u", "t", "e", "f", "o", "r", "c", "e">>),
                     Text(<<"b", "r", "u", "t", "e">>),
                     Text(<<"b", "f">>)},
     CompareAll |-> {Text(<<"c", "o", "m", "p", "a", "r", "e", " ", "a", "l", "l">>),
                     Text(<<"c", "o", "m", "p", "a", "r", "e">>),
                     Text(<<"a", "l", "l">>)}]

Capitals(s) == [k \in 1..Len(s) |-> IF s[k] \in 97..122 THEN s[k] - 32 ELSE s[k]]
Capitalised(s) == [k \in 1..Len(s) |-> IF k = 1 THEN Capitals(s)[k] ELSE s[k]]
Padded(s) == <<Ord.space>> \o s \o <<Ord.space, Ord.space>>

Spellings(S) ==
    S \cup {Capitals(s) : s \in S} \cup {Capitalised(s) : s \in S}
      \cup {Padded(s) : s \in S}

NotAliases ==
    {Text(<<"x", "y", "z">>),
     <<>>,
     <<Ord.space>>,
     Text(<<"r", "a", "b", "i", "n", " ", "k", "a", "r", "p">>),
     Text(<<"k", "-", "m", "p">>),
     Text(<<"k", "m", "p", "s">>),
     Text(<<"r">>),
     Text(<<"b", "r", "u", "t", "e", "-", "f", "o", "r", "c", "e">>),
     Text(<<"c", "o", "m", "p", "a", "r", "e", "a", "l", "l">>),
     Text(<<"a", " ", "l", "l">>),
     <<Ord.AE>>}

RawNames ==
    Spellings(Aliases.KMP) \cup Spellings(Aliases.RabinKarp)
      \cup Spellings(Aliases.BruteForce) \cup Spellings(Aliases.CompareAll)
      \cup NotAliases

CommandLines ==
    {[mode |-> m, flag |-> f, value |-> <<>>] :
        m \in Modes, f \in {"absent", "last"}}
    \cup {[mode |-> m, flag |-> "value", value |-> v] :
            m \in Modes, v \in RawNames}

CliIdle ==
    /\ argv = [mode |-> "no argument", flag |-> "absent", value |-> <<>>]
    /\ cli_pc = "not started"
    /\ cli_algorithm = ""
    /\ app = [db |-> [connection |-> "none"]]
    /\ pending = NoException
    /\ exit_status = -1

CliInit ==
    /\ argv \in CommandLines
    /\ cli_pc = "try"
    /\ cli_algorithm = ""
    /\ app = [db |-> [connection |-> "open"]]
    /\ pending = NoException
    /\ exit_status = -1

\* the dispatch on sys.argv[1]; in --analyze mode the algorithm is
\* normalised first and an invalid one leaves through sys.exit(2)
MainTry ==
    /\ cli_pc = "try"
    /\ IF argv.mode = "--analyze"
       THEN LET algorithm_raw == _get(argv, Text(<<"K", "M", "P">>))
                normalized == normalize_algorithm([str |-> TRUE,
                                                   chars |-> algorithm_raw])
            IN  /\ cli_algorithm' = normalized
                /\ IF normalized = None
                   THEN /\ pending' = SystemExit(2)
                        /\ cli_pc' = "finally"
                   ELSE /\ pending' = pending
                        /\ cli_pc' = "body"
       ELSE /\ cli_pc' = "body"
            /\ UNCHANGED <<cli_algorithm, pending>>
    /\ UNCHANGED <<argv, app, exit_status>>
    /\ UNCHANGED notCli

\* the selected mode runs
MainBody ==
    /\ cli_pc = "body"
    /\ \E outcome \in BodyOutcomes(argv.mode) :
          CASE outcome = "returned" ->
                 cli_pc' = "finally" /\ pending' = pending
            [] outcome = "SystemExit" ->
                 cli_pc' = "finally" /\ pending' = SystemExit(0)
            [] OTHER ->
                 cli_pc' = "except " \o outcome /\ pending' = pending
    /\ UNCHANGED <<argv, cli_algorithm, app, exit_status>>
    /\ UNCHANGED notCli

\* except KeyboardInterrupt
MainExceptKeyboardInterrupt ==
    /\ cli_pc = "except KeyboardInterrupt"
    /\ cli_pc' = "finally"
    /\ UNCHANGED <<argv, cli_algorithm, app, pending, exit_status>>
    /\ UNCHANGED notCli

\* except Exception
MainExceptException ==
    /\ cli_pc = "except Exception"
    /\ cli_pc' = "finally"
    /\ UNCHANGED <<argv, cli_algorithm, app, pending, exit_status>>
    /\ UNCHANGED notCli

\* finally: app.cleanup(); a pending SystemExit then ends the process with
\* its code, otherwise main returns
MainFinally ==
    /\ cli_pc = "finally"
    /\ app' = cleanup(app)
    /\ IF pending.type = "SystemExit"
       THEN cli_pc' = "exited" /\ exit_status' = pending.code
       ELSE cli_pc' = "returned" /\ exit_status' = 0
    /\ UNCHANGED <<argv, cli_algorithm, pending>>
    /\ UNCHANGED notCli

(***************************************************************************)
(* Single-CV scoring: one call of analyze_cv on a text, a keyword list, an *)
(* algorithm name and a case mode.  search_calls counts the searches the   *)
(* call runs.                                                              *)
(***************************************************************************)
MaxKeywordList == 2

AnalyzeTexts == {<<>>, <<Ord.space>>, <<Ord.A>>, <<Ord.a, Ord.AE>>}
AnalyzeKeywords == {<<>>, <<Ord.space>>, <<Ord.a>>, <<Ord.space, Ord.AE, Ord.space>>}

NotCalled == [called |-> FALSE, result |-> [raised |-> FALSE]]

\* the searches run by the for loop of analyze_cv: one for each keyword that
\* is not blank, up to the raise of an unknown algorithm
RECURSIVE SearchCallLoop(_, _, _, _)
SearchCallLoop(keywords, algorithm, k, n) ==
    IF k > Len(keywords)
    THEN n
    ELSE IF Strip(keywords[k]) = <<>>
    THEN SearchCallLoop(keywords, algorithm, k + 1, n)
    ELSE IF algorithm \in AlgorithmNames
    THEN SearchCallLoop(keywords, algorithm, k + 1, n + 1)
    ELSE n

SearchCalls(cv_text, keywords, algorithm) ==
    IF cv_text = <<>> \/ keywords = <<>>
    THEN 0
    ELSE SearchCallLoop(keywords, algorithm, 1, 0)

AnalyzeIdle ==
    /\ analyze_call = [cv_text |-> <<>>, keywords |-> <<>>, algorithm |-> "",
                       case_sensitive |-> FALSE]
    /\ analyze_result = NotCalled
    /\ search_calls = 0

AnalyzeInit ==
    /\ analyze_call \in [cv_text : AnalyzeTexts,
                         keywords : SeqsUpTo(AnalyzeKeywords, MaxKeywordList),
                         algorithm : AlgorithmChoices,
                         case_sensitive : BOOLEAN]
    /\ analyze_result = NotCalled
    /\ search_calls = 0

AnalyzeCv ==
    /\ ~analyze_result.called
    /\ analyze_result' =
          [called |-> TRUE,
           result |-> analyze_cv(analyze_call.cv_text, analyze_call.keywords,
                                 analyze_call.algorithm,
                                 analyze_call.case_sensitive)]
    /\ search_calls' = SearchCalls(analyze_call.cv_text, analyze_call.keywords,
                                   analyze_call.algorithm)
    /\ UNCHANGED analyze_call
    /\ UNCHANGED notAnalyze

(***************************************************************************)
(* The CV file sets: the dataset scan of the command line and the two      *)
(* loaders of the GUI, over one folder.  A file name is the sequence of    *)
(* its characters; folder.files is the folder's listing.                   *)
(***************************************************************************)
\* str.endswith
EndsWith(s, suffix) ==
    /\ Len(s) >= Len(suffix)
    /\ SubSeq(s, Len(s) - Len(suffix) + 1, Len(s)) = suffix

\* str.endswith with a tuple of suffixes
EndsWithAny(s, suffixes) ==
    \E k \in 1..Len(suffixes) : EndsWith(s, suffixes[k])

DotPdf == Text(<<".", "p", "d", "f">>)
DotDocx == Text(<<".", "d", "o", "c", "x">>)
DotDoc == Text(<<".", "d", "o", "c">>)

\* os.path.join and os.path.basename
join(root, file) == root \o Text(<<"/">>) \o file

RECURSIVE os_path_basename(_)
os_path_basename(path) ==
    IF path = <<>> \/ path[Len(path)] = ord("/")
    THEN <<>>
    ELSE os_path_basename(SubSeq(path, 1, Len(path) - 1)) \o <<path[Len(path)]>>

\* str comparison, as list.sort uses it
RECURSIVE StrLess(_, _)
StrLess(x, y) ==
    IF y = <<>> THEN FALSE
    ELSE IF x = <<>> THEN TRUE
    ELSE IF Head(x) # Head(y) THEN Head(x) < Head(y)
    ELSE StrLess(Tail(x), Tail(y))

RECURSIVE InsertSorted(_, _)
InsertSorted(sorted, x) ==
    IF sorted = <<>> THEN <<x>>
    ELSE IF StrLess(x, Head(sorted)) THEN <<x>> \o sorted
    ELSE <<Head(sorted)>> \o InsertSorted(Tail(sorted), x)

\* list.sort
RECURSIVE Sorted(_)
Sorted(xs) ==
    IF xs = <<>> THEN <<>>
    ELSE InsertSorted(Sorted(SubSeq(xs, 1, Len(xs) - 1)), xs[Len(xs)])

\* CVAnalyzerApp._get_cv_files_from_dataset
_get_cv_files_from_dataset(dataset, dataset_path, max_files) ==
    IF ~dataset.exists
    THEN <<>>
    ELSE LET kept == SelectSeq(dataset.files,
                        LAMBDA file :
                            EndsWithAny(Lower(file), <<DotPdf, DotDocx, DotDoc>>))
             all_files == [k \in 1..Len(kept) |-> join(dataset_path, kept[k])]
         IN  SliceTo(Sorted(all_files), max_files)

\* the test of both GUI loaders for a legacy .doc file
IsLegacyDoc(name) ==
    EndsWith(Lower(name), DotDoc) /\ ~EndsWith(Lower(name), DotDocx)

IsSupported(name) == EndsWithAny(Lower(name), <<DotPdf, DotDocx>>)

\* load_cv_files on the paths the file dialog returned: the supported paths
\* and the base names reported as skipped
load_cv_files(files) ==
    [supported_files |-> SelectSeq(files,
         LAMBDA file_path : ~IsLegacyDoc(file_path) /\ IsSupported(file_path)),
     unsupported_doc_files |->
         LET skipped == SelectSeq(files,
                 LAMBDA file_path : IsLegacyDoc(file_path) \/ ~IsSupported(file_path))
         IN  [k \in 1..Len(skipped) |-> os_path_basename(skipped[k])]]

\* load_dataset_folder on the folder the directory dialog returned
load_dataset_folder(dataset, dataset_path) ==
    LET kept == SelectSeq(dataset.files,
                    LAMBDA file : ~IsLegacyDoc(file) /\ IsSupported(file))
    IN  [supported_files |-> [k \in 1..Len(kept) |-> join(dataset_path, kept[k])],
         unsupported_doc_files |-> SelectSeq(dataset.files, IsLegacyDoc)]

MaxFolder == 2
MaxListed == 2

DatasetPath == Text(<<"d">>)

LegacyNames ==
    {Text(<<"r", ".", "d", "o", "c">>),
     Text(<<"R", ".", "D", "O", "C">>),
     Text(<<"r", ".", "D", "o", "c">>),
     Text(<<"r", ".", "p", "d", "f", ".", "d", "o", "c">>)}

AcceptedNames ==
    {Text(<<"r", ".", "d", "o", "c", "x">>),
     Text(<<"r", ".", "D", "o", "c", "X">>),
     Text(<<"r", ".", "p", "d", "f">>),
     Text(<<"R", ".", "P", "D", "F">>)}

OtherNames ==
    {Text(<<"r", ".", "t", "x", "t">>),
     Text(<<"r", "d", "o", "c">>)}

FileNames == LegacyNames \cup AcceptedNames \cup OtherNames

\* the listings of a folder: sequences of distinct names
Listings ==
    {l \in SeqsUpTo(FileNames, MaxFolder) :
        \A i, j \in 1..Len(l) : i # j => l[i] # l[j]}

FilesIdle ==
    /\ folder = [exists |-> FALSE, files |-> <<>>]
    /\ cli_cv_files = <<>>
    /\ main_window_cv_files = <<>>
    /\ unsupported_doc_files = <<>>
    /\ last_load = "none"

FilesInit ==
    /\ folder \in {[exists |-> FALSE, files |-> <<>>]}
                    \cup {[exists |-> TRUE, files |-> l] : l \in Listings}
    /\ cli_cv_files = <<>>
    /\ main_window_cv_files = <<>>
    /\ unsupported_doc_files = <<>>
    /\ last_load = "none"

\* run_cli_analysis gathers the CV files of --dataset
GetCvFilesFromDataset ==
    /\ \E max_files \in {1, 1000} :
          cli_cv_files' = _get_cv_files_from_dataset(folder, DatasetPath, max_files)
    /\ last_load' = "dataset scan"
    /\ UNCHANGED <<folder, main_window_cv_files, unsupported_doc_files>>
    /\ UNCHANGED notFiles

\* load_cv_files: the user selects some files of the folder in the dialog
LoadCvFiles ==
    /\ folder.exists
    /\ Len(main_window_cv_files) < MaxListed
    /\ \E chosen \in SUBSET (1..Len(folder.files)) :
          LET picked == SelectSeq([k \in 1..Len(folder.files) |->
                                      IF k \in chosen
                                      THEN join(DatasetPath, folder.files[k])
                                      ELSE <<>>],
                                  LAMBDA file_path : file_path # <<>>)
              loaded == load_cv_files(picked)
          IN  /\ chosen # {}
              /\ main_window_cv_files' =
                    main_window_cv_files \o loaded.supported_files
              /\ unsupported_doc_files' = loaded.unsupported_doc_files
    /\ last_load' = "load_cv_files"
    /\ UNCHANGED <<folder, cli_cv_files>>
    /\ UNCHANGED notFiles

\* load_dataset_folder: the user selects the folder
LoadDatasetFolder ==
    /\ folder.exists
    /\ Len(main_window_cv_files) < MaxListed
    /\ LET loaded == load_dataset_folder(folder, DatasetPath)
       IN  /\ main_window_cv_files' =
                 main_window_cv_files \o loaded.supported_files
           /\ unsupported_doc_files' = loaded.unsupported_doc_files
    /\ last_load' = "load_dataset_folder"
    /\ UNCHANGED <<folder, cli_cv_files>>
    /\ UNCHANGED notFiles

(***************************************************************************)
(* A batch run over the main window's file list.  run_single_analysis      *)
(* hands main_window.cv_files itself to the worker, which hands it to      *)
(* analyze_multiple_cvs: the worker thread iterates the list object the UI *)
(* thread's loaders extend and clear_cv_files empties.  A for loop over a  *)
(* list asks at each turn whether its index is below the list's current    *)
(* length, and ends for good when it is not.                               *)
(***************************************************************************)
\* one folder of two supported files, and nothing loaded yet
BatchFolder ==
    [exists |-> TRUE,
     files |-> <<Text(<<"r", ".", "p", "d", "f">>),
                 Text(<<"r", ".", "d", "o", "c", "x">>)>>]

BatchInit ==
    /\ folder = BatchFolder
    /\ cli_cv_files = <<>>
    /\ main_window_cv_files = <<>>
    /\ unsupported_doc_files = <<>>
    /\ last_load = "none"
    /\ SessionIdle

\* clear_cv_files, the user answering Yes
ClearCvFiles ==
    /\ main_window_cv_files # <<>>
    /\ main_window_cv_files' = <<>>
    /\ last_load' = "clear_cv_files"
    /\ UNCHANGED <<folder, cli_cv_files, unsupported_doc_files>>
    /\ UNCHANGED notFiles

\* a turn of the for loop of analyze_multiple_cvs over cv_files: the next
\* file gets its result, or the loop ends
LoopTurn(run, cv_files) ==
    IF run.index < Len(cv_files)
    THEN [run EXCEPT !.index = run.index + 1,
                     !.cv_results = Append(run.cv_results,
                                           cv_files[run.index + 1])]
    ELSE [run EXCEPT !.pc = "statistics"]

\* the batch statistics and the return: total_cvs_analyzed=len(cv_files)
BatchReturned(run, cv_files) ==
    [run EXCEPT !.pc = "returned", !.total_cvs_analyzed = Len(cv_files)]

sessionFrame == <<searchVars, scoreVars, rankVars, engineVars, guiVars, dbVars,
                  cliVars, analyzeVars, csvVars, callerVars, loopVars>>

\* start_analysis and run_single_analysis with files loaded: the worker is
\* created on the list and started, and calls analyze_multiple_cvs
RunSingleAnalysis ==
    /\ batch_loop.pc \in {"none", "returned"}
    /\ main_window_cv_files # <<>>
    /\ batch_loop' = [NoBatchRun EXCEPT !.pc = "loop"]
    /\ UNCHANGED <<current_job_description, running_job, results_mutex, sections>>
    /\ UNCHANGED fileVars
    /\ UNCHANGED sessionFrame

BatchLoopTurn ==
    /\ batch_loop.pc = "loop"
    /\ batch_loop' = LoopTurn(batch_loop, main_window_cv_files)
    /\ UNCHANGED <<current_job_description, running_job, results_mutex, sections>>
    /\ UNCHANGED fileVars
    /\ UNCHANGED sessionFrame

BatchReturn ==
    /\ batch_loop.pc = "statistics"
    /\ batch_loop' = BatchReturned(batch_loop, main_window_cv_files)
    /\ UNCHANGED <<current_job_description, running_job, results_mutex, sections>>
    /\ UNCHANGED fileVars
    /\ UNCHANGED sessionFrame

(***************************************************************************)
(* CSV export: export_results_to_csv writes a batch result with            *)
(* csv.DictWriter (excel dialect: a field that holds a comma, a quote or a *)
(* line break is quoted, its quotes doubled; rows end in CR LF), and a     *)
(* reader parses the file as csv.DictReader does.  The file is the         *)
(* sequence of its characters.  A float is written as repr() writes it, in *)
(* decimal; the model's exact scores are written to FloatPrecision         *)
(* decimal places.                                                         *)
(***************************************************************************)
FloatPrecision == 6

RECURSIVE Pow10(_)
Pow10(k) == IF k = 0 THEN 1 ELSE 10 * Pow10(k - 1)

\* str(int) for n >= 0
RECURSIVE str_int(_)
str_int(n) ==
    IF n < 10 THEN <<48 + n>> ELSE str_int(n \div 10) \o <<48 + (n % 10)>>

\* a run of decimal digits read as a number
RECURSIVE int_of(_)
int_of(digits) ==
    IF digits = <<>> THEN 0
    ELSE 10 * int_of(SubSeq(digits, 1, Len(digits) - 1))
         + (digits[Len(digits)] - 48)

\* the decimals of a fraction, to FloatPrecision places, without the
\* trailing zeros but for one digit
RECURSIVE Decimals(_, _)
Decimals(frac, places) ==
    IF places = 1 \/ frac % Pow10(places - 1) = 0
    THEN str_int(frac \div Pow10(places - 1))
    ELSE Decimals(frac, places - 1)
         \o <<48 + (frac % 10)>>

PadZeros(digits, width) ==
    [k \in 1..(width - Len(digits)) |-> 48] \o digits

\* repr(float) of a score: rounded to FloatPrecision places
str_float(r) ==
    LET unit == Pow10(FloatPrecision)
        scaled == (2 * r[1] * unit + r[2]) \div (2 * r[2])
        frac == scaled % unit
        shown == IF frac = 0 THEN <<48>>
                 ELSE LET all == PadZeros(str_int(frac), FloatPrecision)
                          last == CHOOSE k \in 1..Len(all) :
                                     /\ all[k] # 48
                                     /\ \A j \in (k + 1)..Len(all) : all[j] = 48
                      IN  SubSeq(all, 1, last)
    IN  str_int(scaled \div unit) \o Text(<<".">>) \o shown

\* float(str) of a decimal
float(s) ==
    LET dot == CHOOSE k \in 1..Len(s) : s[k] = ord(".")
        whole == SubSeq(s, 1, dot - 1)
        frac == SubSeq(s, dot + 1, Len(s))
    IN  RatNorm(<<int_of(whole) * Pow10(Len(frac)) + int_of(frac),
                  Pow10(Len(frac))>>)

\* sep.join(items)
RECURSIVE str_join(_, _)
str_join(sep, items) ==
    IF items = <<>> THEN <<>>
    ELSE IF Len(items) = 1 THEN items[1]
    ELSE items[1] \o sep \o str_join(sep, Tail(items))

StartsWith(s, prefix) ==
    Len(s) >= Len(prefix) /\ SubSeq(s, 1, Len(prefix)) = prefix

\* s.split(sep): the pieces between the occurrences of sep, from the left
RECURSIVE SplitFrom(_, _, _)
SplitFrom(s, sep, piece) ==
    IF s = <<>> THEN <<piece>>
    ELSE IF StartsWith(s, sep)
    THEN <<piece>> \o SplitFrom(SubSeq(s, Len(sep) + 1, Len(s)), sep, <<>>)
    ELSE SplitFrom(Tail(s), sep, Append(piece, Head(s)))

str_split(s, sep) == SplitFrom(s, sep, <<>>)

Separator == Text(<<";", " ">>)

\* ---- csv.writer ----
LineBreaks == {ord("\r"), ord("\n")}

NeedsQuotes(field) ==
    \E k \in 1..Len(field) :
        field[k] \in {ord(","), ord("\"")} \cup LineBreaks

RECURSIVE DoubleQuotes(_)
DoubleQuotes(field) ==
    IF field = <<>> THEN <<>>
    ELSE (IF Head(field) = ord("\"") THEN Text(<<"\"", "\"">>) ELSE <<Head(field)>>)
         \o DoubleQuotes(Tail(field))

\* a writer that never quotes
WriteBare(field) == field

WriteField(field) ==
    IF NeedsQuotes(field)
    THEN Text(<<"\"">>) \o DoubleQuotes(field) \o Text(<<"\"">>)
    ELSE field

writerow(fields) ==
    str_join(Text(<<",">>), [k \in 1..Len(fields) |-> WriteField(fields[k])])
      \o Text(<<"\r", "\n">>)

\* ---- csv.reader ----
\* the characters before the first one of stops
RunBefore(chars, stops) ==
    LET ends == {k \in 1..Len(chars) : chars[k] \in stops}
        n == IF ends = {} THEN Len(chars)
             ELSE (CHOOSE k \in ends : \A j \in ends : k <= j) - 1
    IN  SubSeq(chars, 1, n)

\* the reader's automaton over the characters of the file: the rows parsed
\* (a run of characters the automaton adds to the field one by one is added
\* at once)
RECURSIVE ParseCsv(_, _, _, _, _)
ParseCsv(chars, state, field, row, rows) ==
    IF chars = <<>>
    THEN IF state \in {"START_RECORD", "EAT_CRNL"}
         THEN rows
         ELSE Append(rows, Append(row, field))
    ELSE LET c == Head(chars)
             rest == Tail(chars)
         IN  CASE state = "EAT_CRNL" /\ c \in LineBreaks ->
                    ParseCsv(rest, "EAT_CRNL", <<>>, <<>>, rows)
               [] state = "EAT_CRNL" /\ c \notin LineBreaks ->
                    ParseCsv(chars, "START_RECORD", <<>>, <<>>, rows)
               [] state = "START_RECORD" /\ c \in LineBreaks ->
                    ParseCsv(rest, "EAT_CRNL", <<>>, <<>>, rows)
               [] state = "START_RECORD" /\ c \notin LineBreaks ->
                    ParseCsv(chars, "START_FIELD", <<>>, <<>>, rows)
               [] state \in {"START_FIELD", "IN_FIELD", "QUOTE_IN_QUOTED_FIELD"}
                  /\ c \in LineBreaks ->
                    ParseCsv(rest, "EAT_CRNL", <<>>, <<>>,
                             Append(rows, Append(row, field)))
               [] state \in {"START_FIELD", "IN_FIELD", "QUOTE_IN_QUOTED_FIELD"}
                  /\ c = ord(",") ->
                    ParseCsv(rest, "START_FIELD", <<>>, Append(row, field), rows)
               [] state = "START_FIELD" /\ c = ord("\"") ->
                    ParseCsv(rest, "IN_QUOTED_FIELD", field, row, rows)
               [] state = "IN_QUOTED_FIELD" /\ c = ord("\"") ->
                    ParseCsv(rest, "QUOTE_IN_QUOTED_FIELD", field, row, rows)
               [] state = "IN_QUOTED_FIELD" /\ c # ord("\"") ->
                    LET run == RunBefore(chars, {ord("\"")})
                    IN  ParseCsv(SubSeq(chars, Len(run) + 1, Len(chars)),
                                 "IN_QUOTED_FIELD", field \o run, row, rows)
               [] state = "QUOTE_IN_QUOTED_FIELD" /\ c = ord("\"") ->
                    ParseCsv(rest, "IN_QUOTED_FIELD", Append(field, c), row, rows)
               [] OTHER ->
                    LET run == <<c>> \o RunBefore(rest, {ord(",")} \cup LineBreaks)
                    IN  ParseCsv(SubSeq(chars, Len(run) + 1, Len(chars)),
                                 "IN_FIELD", field \o run, row, rows)

\* ---- export_results_to_csv ----
fieldnames ==
    <<Text(<<"c", "v", "_", "f", "i", "l", "e", "n", "a", "m", "e">>),
      Text(<<"j", "o", "b", "_", "d", "e", "s", "c", "r", "i", "p", "t", "i",
           "o", "n">>),
      Text(<<"a", "l", "g", "o", "r", "i", "t", "h", "m", "_", "u", "s", "e",
           "d">>),
      Text(<<"m", "a", "t", "c", "h", "e", "d", "_", "k", "e", "y", "w", "o",
           "r", "d", "s">>),
      Text(<<"m", "i", "s", "s", "i", "n", "g", "_", "k", "e", "y", "w", "o",
           "r", "d", "s">>),
      Text(<<"r", "e", "l", "e", "v", "a", "n", "c", "e", "_", "s", "c", "o",
           "r", "e">>),
      Text(<<"e", "x", "e", "c", "u", "t", "i", "o", "n", "_", "t", "i", "m",
           "e">>),
      Text(<<"c", "o", "m", "p", "a", "r", "i", "s", "o", "n", "_", "c", "o",
           "u", "n", "t">>),
      Text(<<"t", "o", "t", "a", "l", "_", "k", "e", "y", "w", "o", "r", "d",
           "s">>),
      Text(<<"t", "i", "m", "e", "s", "t", "a", "m", "p">>)>>

\* the columns, by position
Column == [cv_filename |-> 1, job_description |-> 2, algorithm_used |-> 3,
           matched_keywords |-> 4, missing_keywords |-> 5,
           relevance_score |-> 6, execution_time |-> 7,
           comparison_count |-> 8, total_keywords |-> 9, timestamp |-> 10]

\* the algorithm names as character strings
AlgorithmText(algorithm) ==
    CASE algorithm = "Brute Force" ->
             Text(<<"B", "r", "u", "t", "e", " ", "F", "o", "r", "c", "e">>)
      [] algorithm = "Rabin-Karp" ->
             Text(<<"R", "a", "b", "i", "n", "-", "K", "a", "r", "p">>)
      [] algorithm = "KMP" -> Text(<<"K", "M", "P">>)

\* execution times and time stamps are not part of the model: one value each
ExecutionTime == <<0, 1>>
Timestamp ==
    Text(<<"2", "0", "2", "5", "-", "0", "1", "-", "0", "1", " ",
           "0", "0", ":", "0", "0", ":", "0", "0">>)

\* the dict written for one CV result
RowOf(result) ==
    <<result.cv_filename,
      result.job_description,
      AlgorithmText(result.algorithm_used),
      str_join(Separator, result.matched_keywords),
      str_join(Separator, result.missing_keywords),
      str_float(result.relevance_score),
      str_float(ExecutionTime),
      str_int(result.comparison_count),
      str_int(result.total_keywords),
      Timestamp>>

RECURSIVE WriteRows(_, _)
WriteRows(cv_results, k) ==
    IF k > Len(cv_results) THEN <<>>
    ELSE writerow(RowOf(cv_results[k])) \o WriteRows(cv_results, k + 1)

export_results_to_csv(batch) ==
    writerow(fieldnames) \o WriteRows(batch.cv_results, 1)

\* csv.DictReader over the file: the rows after the header
DictReader(chars) ==
    LET records == ParseCsv(chars, "START_RECORD", <<>>, <<>>, <<>>)
    IN  Tail(records)

\* ---- the export specification ----
MaxCsvRows == 2

CsvFileNames ==
    {Text(<<"a", ".", "p", "d", "f">>),
     Text(<<"a", ",", "\"", "b", "\"", ".", "p", "d", "f">>)}
CsvTitles ==
    {Text(<<"d", "e", "v", ",", " ", "s", "r", "\n", "Q">>)}
CsvTexts == {<<>>, <<Ord.a, Ord.AE>>}
\* the files of a batch: a file name and the text extracted from the file
CsvFiles ==
    {f \in CsvFileNames \X CsvTexts : NeedsQuotes(f[1]) => f[2] # <<>>}
CsvKeywords ==
    {<<Ord.a>>, <<Ord.space, Ord.AE, Ord.space>>, Text(<<"a", ";", " ", "A">>)}

\* a CV result as analyze_multiple_cvs builds it
CsvResult(name, title, txt, keywords, algorithm) ==
    IF txt = <<>> \/ Strip(txt) = <<>>
    THEN AnalysisResult(name, title, algorithm, <<>>, keywords, RatZero, 0,
                        Len(keywords))
    ELSE [analyze_cv(txt, keywords, algorithm, FALSE) EXCEPT
             !.cv_filename = name, !.job_description = title]

NoBatch == [algorithm_used |-> "", cv_results |-> <<>>]
NotRead == <<(<<Text(<<"-">>)>>)>>

CsvIdle ==
    /\ batch_result = NoBatch
    /\ csvfile = <<>>
    /\ csv_rows = NotRead

CsvInit ==
    /\ \E algorithm \in AlgorithmNames, title \in CsvTitles,
          keywords \in SeqsUpTo(CsvKeywords, MaxKeywordList),
          files \in SeqsUpTo(CsvFiles, MaxCsvRows) :
          batch_result =
              [algorithm_used |-> algorithm,
               cv_results |-> [k \in 1..Len(files) |->
                                  CsvResult(files[k][1], title, files[k][2],
                                            keywords, algorithm)]]
    /\ csvfile = <<>>
    /\ csv_rows = NotRead

ExportResultsToCsv ==
    /\ csvfile = <<>>
    /\ csvfile' = export_results_to_csv(batch_result)
    /\ UNCHANGED <<batch_result, csv_rows>>
    /\ UNCHANGED notCsv

ReadCsv ==
    /\ csvfile # <<>>
    /\ csv_rows = NotRead
    /\ csv_rows' = DictReader(csvfile)
    /\ UNCHANGED <<batch_result, csvfile>>
    /\ UNCHANGED notCsv

(***************************************************************************)
(* The engine's history as its callers see it: get_analysis_history        *)
(* returns a list, and the caller may change that list.  A list is the     *)
(* object it is (the engine's own list or a new one) and the items it      *)
(* holds; the items of a copy are the engine's own batch results.          *)
(***************************************************************************)
NotFetched == [list |-> "none", items |-> <<>>]

\* a getter that hands out the engine's own list
ReturnHistoryItself(history) == [list |-> "engine", items |-> history]

\* get_analysis_history: self.analysis_history.copy()
get_analysis_history(history) == [list |-> "copy", items |-> history]

Reversed(items) == [k \in 1..Len(items) |-> items[Len(items) + 1 - k]]

\* what a caller can make of a list: clear(), pop(), reverse(), and
\* append() of an item it holds
ListMutations(items) ==
    {<<>>, Reversed(items)}
    \cup (IF items = <<>> THEN {}
          ELSE {SubSeq(items, 1, Len(items) - 1), Append(items, items[1])})

CallerIdle ==
    history_copy = NotFetched

HistoryInit ==
    /\ request \in [job_description : {j \in Jobs : j.keywords # <<>>},
                    algorithm : {Algorithms[Len(Algorithms)]},
                    case_sensitive : {FALSE}]
    /\ disk \in [SupportedPaths ->
                    {r \in ExtractResults : r.success => Len(r.text) > 1}]
    /\ cv_cache = EmptyCache
    /\ analysis_history = <<>>
    /\ failed_paths = {}
    /\ load_log = <<>>
    /\ last_call = NoCall

GetAnalysisHistory ==
    /\ history_copy' = get_analysis_history(analysis_history)
    /\ UNCHANGED notCaller

\* the caller changes the list it was given; a change to the engine's own
\* list is a change to the engine's history
MutateReturnedList ==
    /\ history_copy.list # "none"
    /\ Len(history_copy.items) <= MaxWork
    /\ \E items \in ListMutations(history_copy.items) :
          /\ items # history_copy.items
          /\ history_copy' = [history_copy EXCEPT !.items = items]
          /\ IF history_copy.list = "engine"
             THEN /\ analysis_history' = items
                  /\ UNCHANGED <<request, disk, cv_cache, failed_paths,
                                 load_log, last_call>>
             ELSE UNCHANGED engineVars
    /\ UNCHANGED <<searchVars, scoreVars, rankVars, guiVars, dbVars,
                   cliVars, analyzeVars, fileVars, csvVars, loopVars, sessionVars>>

(***************************************************************************)
(* The specifications.                                                     *)
(***************************************************************************)
SearchNext ==
    \/ BruteForceSearch
    \/ RabinKarpSearch
    \/ KMPSearch

SearchStart ==
    /\ SearchInit /\ ScoreIdle /\ RankIdle /\ EngineIdle /\ GuiIdle /\ StoreIdle
    /\ CliIdle /\ AnalyzeIdle /\ FilesIdle /\ CsvIdle /\ CallerIdle
    /\ LoopIdle
    /\ SessionIdle

SpecSearch == SearchStart /\ [][SearchNext]_vars

ScoreNext ==
    CalculateRelevanceScore

ScoreStart ==
    /\ SearchIdle /\ ScoreInit /\ RankIdle /\ EngineIdle /\ GuiIdle /\ StoreIdle
    /\ CliIdle /\ AnalyzeIdle /\ FilesIdle /\ CsvIdle /\ CallerIdle
    /\ LoopIdle
    /\ SessionIdle

SpecScore == ScoreStart /\ [][ScoreNext]_vars

RankNext ==
    GetTopMatchingCvs

RankStart ==
    /\ SearchIdle /\ ScoreIdle /\ RankInit /\ EngineIdle /\ GuiIdle /\ StoreIdle
    /\ CliIdle /\ AnalyzeIdle /\ FilesIdle /\ CsvIdle /\ CallerIdle
    /\ LoopIdle
    /\ SessionIdle

SpecRank == RankStart /\ [][RankNext]_vars

EngineNext ==
    \/ LoadCvText
    \/ AnalyzeMultipleCvs
    \/ ClearCache

EngineStart ==
    /\ SearchIdle /\ ScoreIdle /\ RankIdle /\ EngineInit /\ GuiIdle /\ StoreIdle
    /\ CliIdle /\ AnalyzeIdle /\ FilesIdle /\ CsvIdle /\ CallerIdle
    /\ LoopIdle
    /\ SessionIdle

SpecEngine == EngineStart /\ [][EngineNext]_vars

CacheNext ==
    \/ LoadCvText
    \/ AnalyzeMultipleCvs
    \/ ClearCache
    \/ RewriteFile

CacheStart ==
    /\ SearchIdle /\ ScoreIdle /\ RankIdle /\ CacheInit /\ GuiIdle /\ StoreIdle
    /\ CliIdle /\ AnalyzeIdle /\ FilesIdle /\ CsvIdle /\ CallerIdle
    /\ LoopIdle
    /\ SessionIdle

SpecCache == CacheStart /\ [][CacheNext]_vars

StoreNext ==
    \/ AddJobDescription
    \/ SaveAnalysisResult
    \/ SaveBatchAnalysisResult
    \/ DeleteJobDescription

StoreStart ==
    /\ SearchIdle /\ ScoreIdle /\ RankIdle /\ EngineIdle /\ GuiIdle /\ StoreInit
    /\ CliIdle /\ AnalyzeIdle /\ FilesIdle /\ CsvIdle /\ CallerIdle
    /\ LoopIdle
    /\ SessionIdle

SpecStore == StoreStart /\ [][StoreNext]_vars

WorkerStep(w) ==
    \/ WorkerBegin(w)
    \/ WorkerAnalyze(w)
    \/ WorkerCheck(w)
    \/ WorkerEmit(w)
    \/ WorkerExcept(w)
    \/ WorkerEmitError(w)
    \/ WorkerFinish(w)

UiStep ==
    \/ OnAnalysisCompleted
    \/ OnCompareAllFinished
    \/ OnAnalysisError
    \/ WorkerDestroyed
    \/ StartWaitReturn
    \/ StopWaitReturn

GuiNext ==
    \/ StartAnalysis
    \/ StopAnalysis
    \/ UiStep
    \/ \E w \in 1..MaxWorkers : WorkerStep(w)

GuiInit ==
    /\ SearchIdle /\ ScoreIdle /\ RankIdle /\ EngineIdle /\ GuiIdle /\ StoreIdle
    /\ CliIdle /\ AnalyzeIdle /\ FilesIdle /\ CsvIdle /\ CallerIdle
    /\ LoopIdle
    /\ SessionIdle

SpecGui == GuiInit /\ [][GuiNext]_vars

\* The worker threads are scheduled and analyses end; the UI thread's event
\* loop handles every queued event and every wait returns.  Nothing obliges
\* the user to press a button.
SpecGuiFair ==
    /\ SpecGui
    /\ \A w \in 1..MaxWorkers : WF_vars(WorkerStep(w))
    /\ WF_vars(UiStep)

Spec == SpecGui

CliNext ==
    \/ MainTry
    \/ MainBody
    \/ MainExceptKeyboardInterrupt
    \/ MainExceptException
    \/ MainFinally

CliStart ==
    /\ SearchIdle /\ ScoreIdle /\ RankIdle /\ EngineIdle /\ GuiIdle /\ StoreIdle
    /\ CliInit /\ AnalyzeIdle /\ FilesIdle /\ CsvIdle /\ CallerIdle
    /\ LoopIdle
    /\ SessionIdle

SpecCli == CliStart /\ [][CliNext]_vars

AnalyzeNext ==
    AnalyzeCv

AnalyzeStart ==
    /\ SearchIdle /\ ScoreIdle /\ RankIdle /\ EngineIdle /\ GuiIdle /\ StoreIdle
    /\ CliIdle /\ AnalyzeInit /\ FilesIdle /\ CsvIdle /\ CallerIdle
    /\ LoopIdle
    /\ SessionIdle

SpecAnalyze == AnalyzeStart /\ [][AnalyzeNext]_vars

FilesNext ==
    \/ GetCvFilesFromDataset
    \/ LoadCvFiles
    \/ LoadDatasetFolder

FilesStart ==
    /\ SearchIdle /\ ScoreIdle /\ RankIdle /\ EngineIdle /\ GuiIdle /\ StoreIdle
    /\ CliIdle /\ AnalyzeIdle /\ FilesInit /\ CsvIdle /\ CallerIdle
    /\ LoopIdle
    /\ SessionIdle

SpecFiles == FilesStart /\ [][FilesNext]_vars

LockNext == \E t \in Threads : HandlerStep(t)

LockStart ==
    /\ SearchIdle /\ ScoreIdle /\ RankIdle /\ EngineIdle /\ GuiIdle /\ StoreIdle
    /\ CliIdle /\ AnalyzeIdle /\ FilesIdle /\ CsvIdle /\ CallerIdle
    /\ LoopIdle
    /\ SessionIdle

SpecLock == LockStart /\ [][LockNext]_vars

JobsNext ==
    \/ SaveJobDescription
    \/ OnJobSelectionChanged
    \/ DeleteSelectedJob
    \/ StartAnalysisOfJob
    \/ CompleteAnalysisOfJob

JobsStart ==
    /\ SearchIdle /\ ScoreIdle /\ RankIdle /\ EngineIdle /\ GuiIdle /\ JobsInit
    /\ CliIdle /\ AnalyzeIdle /\ FilesIdle /\ CsvIdle /\ CallerIdle
    /\ LoopIdle

SpecJobs == JobsStart /\ [][JobsNext]_vars

BatchNext ==
    \/ LoadCvFiles
    \/ LoadDatasetFolder
    \/ ClearCvFiles
    \/ RunSingleAnalysis
    \/ BatchLoopTurn
    \/ BatchReturn

BatchStart ==
    /\ SearchIdle /\ ScoreIdle /\ RankIdle /\ EngineIdle /\ GuiIdle /\ StoreIdle
    /\ CliIdle /\ AnalyzeIdle /\ BatchInit /\ CsvIdle /\ CallerIdle
    /\ LoopIdle

SpecBatch == BatchStart /\ [][BatchNext]_vars

CsvNext ==
    \/ ExportResultsToCsv
    \/ ReadCsv

CsvStart ==
    /\ SearchIdle /\ ScoreIdle /\ RankIdle /\ EngineIdle /\ GuiIdle /\ StoreIdle
    /\ CliIdle /\ AnalyzeIdle /\ FilesIdle /\ CsvInit /\ CallerIdle
    /\ LoopIdle
    /\ SessionIdle

SpecCsv == CsvStart /\ [][CsvNext]_vars

FailureNext ==
    \/ BuildFailureFunction

FailureStart ==
    /\ FailureInit /\ ScoreIdle /\ RankIdle /\ EngineIdle /\ GuiIdle /\ StoreIdle
    /\ CliIdle /\ AnalyzeIdle /\ FilesIdle /\ CsvIdle /\ CallerIdle

SpecFailure == FailureStart /\ [][FailureNext]_vars

WindowNext ==
    \/ SlideWindow

WindowStart ==
    /\ WindowInit /\ ScoreIdle /\ RankIdle /\ EngineIdle /\ GuiIdle /\ StoreIdle
    /\ CliIdle /\ AnalyzeIdle /\ FilesIdle /\ CsvIdle /\ CallerIdle

SpecWindow == WindowStart /\ [][WindowNext]_vars

KmpNext ==
    \/ KmpEnter
    \/ KmpIterate
    \/ KmpReturn

KmpStart ==
    /\ KmpInit /\ ScoreIdle /\ RankIdle /\ EngineIdle /\ GuiIdle /\ StoreIdle
    /\ CliIdle /\ AnalyzeIdle /\ FilesIdle /\ CsvIdle /\ CallerIdle

SpecKmp == KmpStart /\ [][KmpNext]_vars

HistoryNext ==
    \/ LoadCvText
    \/ AnalyzeMultipleCvs
    \/ ClearCache
    \/ GetAnalysisHistory
    \/ MutateReturnedList

HistoryStart ==
    /\ SearchIdle /\ ScoreIdle /\ RankIdle /\ HistoryInit /\ GuiIdle /\ StoreIdle
    /\ CliIdle /\ AnalyzeIdle /\ FilesIdle /\ CsvIdle /\ CallerIdle
    /\ LoopIdle
    /\ SessionIdle

SpecHistory == HistoryStart /\ [][HistoryNext]_vars

(***************************************************************************)
(* The claims.                                                             *)
(***************************************************************************)

\* C1: for every text and every pattern, in both case modes, the three
\* search algorithms return the same match start positions: once the three
\* have run on a text and a pattern, none has raised and their match lists
\* are equal.
C1_SameMatchPositions ==
    (\A a \in AlgorithmNames : results[a] # NotRun)
        => /\ \A a \in AlgorithmNames : ~results[a].raised
           /\ \A a, b \in AlgorithmNames : results[a].matches = results[b].matches

\* C2: the relevance score of k matched keywords out of t is 0 when t = 0 and
\* otherwise min(1, k/t + b), b = min(0.1, 0.01 k) when k > 0 and b = 0 when
\* k = 0; t = 5, k = 5 gives 1 and t = 10, k = 3 gives 0.33.  Over the common
\* denominator 100 t: k/t + b = (100 k + t min(10, k)) / (100 t).
C2_RelevanceScore ==
    score # NoScore =>
        LET t == Len(total_keywords)
            k == Len(matched_keywords)
        IN  /\ t = 0 => RatEq(score, <<0, 1>>)
            /\ t > 0 => RatEq(score, <<Min(100 * t, 100 * k + t * Min(10, k)),
                                       100 * t>>)
            /\ (t = 5 /\ k = 5) => RatEq(score, <<1, 1>>)
            /\ (t = 10 /\ k = 3) => RatEq(score, <<33, 100>>)

\* the clamp has acted: 5 of 5 keywords, 1.05 before the clamp
C2_Witness ==
    /\ Len(total_keywords) = 5
    /\ Len(matched_keywords) = 5
    /\ score = <<1, 1>>

\* C3: analyze_multiple_cvs returns one entry per input path, in input
\* order; a path without usable text, or whose processing raises, gets a
\* placeholder with score 0, no matched keyword and every job keyword
\* missing; the other paths are still processed, their matched keywords
\* being the job's keywords that occur in their text.
C3_OneEntryPerPath ==
    (last_call.op = "analyze") =>
        LET cv_files == last_call.cv_files
            batch == analysis_history[Len(analysis_history)]
            job == request.job_description
            fold(s) == IF request.case_sensitive THEN s ELSE Lower(s)
            occurs(kw, txt) ==
                \E i \in 1..(Len(txt) - Len(kw) + 1) :
                    SubSeq(fold(txt), i, i + Len(kw) - 1) = fold(kw)
            searched == SelectSeq([k \in 1..Len(job.keywords) |->
                                      Strip(job.keywords[k])],
                                  LAMBDA kw : kw # <<>>)
            blank(k) == Strip(load_log[k].text) = <<>>
            raises(k) == /\ ~blank(k)
                         /\ searched # <<>>
                         /\ request.algorithm \notin AlgorithmNames
        IN  /\ Len(batch.cv_results) = Len(cv_files)
            /\ Len(load_log) = Len(cv_files)
            /\ \A k \in 1..Len(cv_files) :
                 LET r == batch.cv_results[k]
                 IN  /\ r.cv_filename = Basename(cv_files[k])
                     /\ load_log[k].file_path = cv_files[k]
                     /\ (blank(k) \/ raises(k)) =>
                            /\ r.relevance_score = <<0, 1>>
                            /\ r.matched_keywords = <<>>
                            /\ r.missing_keywords = job.keywords
                     /\ ~(blank(k) \/ raises(k)) =>
                            /\ r.matched_keywords =
                                 SelectSeq(searched,
                                     LAMBDA kw : occurs(kw, load_log[k].text))
                            /\ r.missing_keywords =
                                 SelectSeq(searched,
                                     LAMBDA kw : ~occurs(kw, load_log[k].text))

\* a batch of two files: the first has no usable text and gets the
\* placeholder, the second is still processed and matches a keyword
C3_Witness ==
    /\ last_call.op = "analyze"
    /\ Len(last_call.cv_files) = 2
    /\ request.job_description.keywords # <<>>
    /\ load_log[1].text = <<>>
    /\ LET batch == analysis_history[Len(analysis_history)]
       IN  /\ batch.cv_results[1].missing_keywords =
                  request.job_description.keywords
           /\ batch.cv_results[2].matched_keywords # <<>>

\* C4: with no clear_cache in between, once extraction of a path has failed,
\* every later load of that path returns empty text without invoking the
\* extractor.
C4_FailedExtractionCached ==
    \A k \in 1..Len(load_log) :
        load_log[k].failed_before =>
            /\ load_log[k].text = <<>>
            /\ ~load_log[k].invoked

\* a path is loaded again after its extraction failed
C4_Witness ==
    \E k \in 1..Len(load_log) :
        /\ load_log[k].failed_before
        /\ load_log[k].file_path \in failed_paths
        /\ ~load_log[k].invoked

\* C5: the average relevance score of a batch is the sum of the strictly
\* positive scores divided by the number of CVs with a strictly positive
\* score, and 0 when there is none.  The scores that are not positive are 0,
\* so the sum of the positive scores is the sum of all the scores.
C5_AverageOverPositive ==
    \A b \in 1..Len(analysis_history) :
        LET batch == analysis_history[b]
            n == Len(batch.cv_results)
            scores == [k \in 1..n |-> batch.cv_results[k].relevance_score]
            positive == {k \in 1..n : scores[k][1] > 0}
            sum == RatSum(scores, n)
            avg == batch.average_relevance_score
        IN  /\ \A k \in 1..n : scores[k][1] >= 0 /\ scores[k][2] > 0
            /\ positive = {} => RatEq(avg, <<0, 1>>)
            /\ positive # {} =>
                 RatEq(<<avg[1] * Cardinality(positive), avg[2]>>, sum)

\* a batch with a zero score and a positive one: the average is the
\* positive score
C5_Witness ==
    \E b \in 1..Len(analysis_history) :
        LET batch == analysis_history[b]
        IN  /\ Len(batch.cv_results) = 2
            /\ batch.cv_results[1].relevance_score = <<0, 1>>
            /\ batch.cv_results[2].relevance_score[1] > 0
            /\ RatEq(batch.average_relevance_score,
                     batch.cv_results[2].relevance_score)

\* C6: get_top_matching_cvs(batch, N) with N >= 0 returns the first
\* min(N, number of results) entries of the results ordered by score
\* descending, entries of equal score keeping their batch order.  An entry's
\* cv_filename is its position in the batch.
C6_TopMatching ==
    (top # NoTop /\ top_n >= 0) =>
        LET ahead(x, y) ==
                \/ RatLess(y.relevance_score, x.relevance_score)
                \/ /\ RatEq(x.relevance_score, y.relevance_score)
                   /\ x.cv_filename < y.cv_filename
            chosen == {top[i] : i \in 1..Len(top)}
            all == {rank_results[k] : k \in 1..Len(rank_results)}
        IN  /\ Len(top) = Min(top_n, Len(rank_results))
            /\ chosen \subseteq all
            /\ \A i, j \in 1..Len(top) : i < j => ahead(top[i], top[j])
            /\ \A x \in chosen : \A y \in all \ chosen : ahead(x, y)

\* scores 0.2, 0.9, 0.9, 0.1 and N = 2: the two 0.9 entries in batch order
C6_Witness ==
    /\ top_n = 2
    /\ Len(rank_results) = 4
    /\ [k \in 1..4 |-> rank_results[k].relevance_score]
         = <<(<<2, 10>>), (<<9, 10>>), (<<9, 10>>), (<<1, 10>>)>>
    /\ top = <<rank_results[2], rank_results[3]>>

\* C7: in every reachable state of the GUI at most one worker thread is
\* running.
C7_AtMostOneWorkerRunning ==
    Cardinality({w \in 1..Len(workers) : workers[w].running}) <= 1

\* C8: a single-algorithm worker whose interruption has been requested
\* emits nothing.  From the moment the request stands before one of run()'s
\* checks (or while the analysis that leads to one is still running), the
\* worker never reaches an emission and its list of emitted notifications
\* never changes; that list is empty when the request stands before the
\* first check, so the worker emits no notification at all, and holds
\* neither a completion nor an error when the request stands before a later
\* check.
C8_InterruptedWorkerEmitsNothing ==
    [][\A w \in 1..Len(workers) :
          LET worker == workers[w]
              after == workers'[w]
              quiet == {"begin", "analyze", "check", "except", "exit", "gone"}
          IN  (/\ worker.kind = "single"
               /\ worker.interruption_requested
               /\ worker.pc \in quiet
               /\ ~after.destroyed)
              => /\ after.interruption_requested
                 /\ after.pc \in quiet
                 /\ after.emitted = worker.emitted
                 /\ worker.pc = "begin" => worker.emitted = <<>>
                 /\ worker.pc \in {"begin", "analyze", "check", "except"} =>
                        ~ \E k \in 1..Len(worker.emitted) :
                            worker.emitted[k] \in {<<"finished">>, <<"error">>}]_vars

\* a single-algorithm worker that was interrupted after its analysis had
\* begun has passed a check and is leaving run() with nothing emitted but
\* its progress
C8_Witness ==
    \E w \in 1..Len(workers) :
        /\ workers[w].kind = "single"
        /\ workers[w].interruption_requested
        /\ workers[w].running
        /\ workers[w].pc = "exit"
        /\ workers[w].emitted = <<(<<"progress", 0, Len(GuiFiles)>>)>>

C12_UnknownAlgorithmRaises ==
    (analyze_result.called /\ analyze_call.algorithm \notin AlgorithmNames)
        => analyze_result.result.raised

\* C13: analyze_cv given an empty CV text or an empty keyword list returns
\* a result with relevance score 0, no matched keyword, every input keyword
\* listed as missing and zero comparisons, and runs no search.
C13_EmptyInputShortCircuits ==
    (/\ analyze_result.called
     /\ analyze_call.cv_text = <<>> \/ analyze_call.keywords = <<>>)
        => /\ ~analyze_result.result.raised
           /\ analyze_result.result.relevance_score = <<0, 1>>
           /\ analyze_result.result.matched_keywords = <<>>
           /\ analyze_result.result.missing_keywords = analyze_call.keywords
           /\ analyze_result.result.comparison_count = 0
           /\ analyze_result.result.total_keywords = Len(analyze_call.keywords)
           /\ search_calls = 0

\* an empty text scored against two keywords, one of them padded: both are
\* listed as missing, as given
C13_Witness ==
    /\ analyze_result.called
    /\ analyze_call.cv_text = <<>>
    /\ analyze_call.algorithm = "KMP"
    /\ analyze_call.keywords = <<(<<Ord.space, Ord.AE, Ord.space>>), (<<Ord.a>>)>>
    /\ analyze_result.result.missing_keywords = analyze_call.keywords

\* C14: a file whose name ends in .doc but not .docx, in any letter case,
\* never enters the CV file set that is analysed, neither through the
\* dataset scan of the command line nor through the two loaders of the GUI,
\* which report it as skipped; the files of the folder whose names end in
\* .docx or .pdf are accepted by the scan (up to its limit) and by the
\* folder loader, and a selected one by the file loader.
C14_LegacyDocRejected ==
    LET names(paths) == {os_path_basename(paths[k]) : k \in 1..Len(paths)}
        listed == {folder.files[k] : k \in 1..Len(folder.files)}
    IN  /\ names(cli_cv_files) \cap LegacyNames = {}
        /\ names(main_window_cv_files) \cap LegacyNames = {}
        /\ last_load = "dataset scan" =>
              \/ listed \cap AcceptedNames \subseteq names(cli_cv_files)
              \/ Len(cli_cv_files) = 1
        /\ last_load = "load_dataset_folder" =>
              /\ listed \cap AcceptedNames \subseteq names(main_window_cv_files)
              /\ listed \cap LegacyNames =
                    {unsupported_doc_files[k] : k \in 1..Len(unsupported_doc_files)}
        /\ last_load = "load_cv_files" =>
              \A k \in 1..Len(unsupported_doc_files) :
                  unsupported_doc_files[k] \notin AcceptedNames

\* C15: exporting a batch result with export_results_to_csv and re-reading
\* the file recovers, row by row, the same CV file name, algorithm name and
\* relevance score (to the written precision), and splitting the matched
\* and missing keyword columns on "; " recovers the same keyword lists.
C15_CsvRoundTrip ==
    (csv_rows # NotRead) =>
        /\ Len(csv_rows) = Len(batch_result.cv_results)
        /\ \A k \in 1..Len(csv_rows) :
              LET row == csv_rows[k]
                  result == batch_result.cv_results[k]
                  read == float(row[Column.relevance_score])
                  unit == Pow10(FloatPrecision)
                  diff == read[1] * result.relevance_score[2]
                            - result.relevance_score[1] * read[2]
              IN  /\ Len(row) = Len(fieldnames)
                  /\ row[Column.cv_filename] = result.cv_filename
                  /\ row[Column.algorithm_used] =
                        AlgorithmText(batch_result.algorithm_used)
                  /\ 2 * unit * (IF diff < 0 THEN -diff ELSE diff)
                        <= read[2] * result.relevance_score[2]
                  /\ str_split(row[Column.matched_keywords], Separator)
                        = result.matched_keywords
                  /\ str_split(row[Column.missing_keywords], Separator)
                        = result.missing_keywords

\* the part of the round trip that does not depend on the keyword lists
RowRecovered(row, result) ==
    LET read == float(row[Column.relevance_score])
        unit == Pow10(FloatPrecision)
        diff == read[1] * result.relevance_score[2]
                  - result.relevance_score[1] * read[2]
    IN  /\ Len(row) = Len(fieldnames)
        /\ row[Column.cv_filename] = result.cv_filename
        /\ row[Column.algorithm_used] = AlgorithmText(batch_result.algorithm_used)
        /\ 2 * unit * (IF diff < 0 THEN -diff ELSE diff)
              <= read[2] * result.relevance_score[2]

Contains(s, sub) ==
    \E k \in 1..(Len(s) - Len(sub) + 1) : SubSeq(s, k, k + Len(sub) - 1) = sub

\* what splitting a written keyword column on "; " gives: the list itself
\* when it is not empty and no keyword holds "; ", and a list of one empty
\* string for the empty list
ListRecovered(cell, list) ==
    /\ (list = <<>>) => str_split(cell, Separator) = <<(<<>>)>>
    /\ (list # <<>> /\ \A k \in 1..Len(list) : ~Contains(list[k], Separator))
          => str_split(cell, Separator) = list

\* C15 (amended): the re-read file has one row per CV result, in order, with
\* the same CV file name, algorithm name and relevance score (to the
\* written precision); splitting a keyword column on "; " recovers the list
\* when the list is not empty and none of its keywords holds "; ", and an
\* empty list comes back as a list of one empty string.
C15_CsvRoundTripNonEmpty ==
    (csv_rows # NotRead) =>
        /\ Len(csv_rows) = Len(batch_result.cv_results)
        /\ \A k \in 1..Len(csv_rows) :
              /\ RowRecovered(csv_rows[k], batch_result.cv_results[k])
              /\ ListRecovered(csv_rows[k][Column.matched_keywords],
                               batch_result.cv_results[k].matched_keywords)
              /\ ListRecovered(csv_rows[k][Column.missing_keywords],
                               batch_result.cv_results[k].missing_keywords)

\* C15 witness: a file was re-read whose first row has a quoted file name, a
\* score strictly between 0 and 1, and a matched and a missing keyword
C15_Witness ==
    /\ csv_rows # NotRead
    /\ Len(csv_rows) = MaxCsvRows
    /\ NeedsQuotes(batch_result.cv_results[1].cv_filename)
    /\ NeedsQuotes(batch_result.cv_results[1].job_description)
    /\ batch_result.cv_results[1].matched_keywords # <<>>
    /\ batch_result.cv_results[1].missing_keywords # <<>>
    /\ batch_result.cv_results[1].relevance_score \notin {RatZero, <<1, 1>>}

\* C16: the engine's analysis history is append-only: every
\* analyze_multiple_cvs call appends exactly one batch result at the end
\* (the batch of the files it was given), no step removes or reorders an
\* entry, clear_cache and the loads leave the history alone, and handing
\* out the history and changing the list handed out leave it alone.
C16_HistoryAppendOnly ==
    [][/\ Len(analysis_history') >= Len(analysis_history)
       /\ SubSeq(analysis_history', 1, Len(analysis_history)) = analysis_history
       /\ AnalyzeMultipleCvs =>
             /\ Len(analysis_history') = Len(analysis_history) + 1
             /\ analysis_history'[Len(analysis_history')].total_cvs_analyzed
                   = Len(last_call'.cv_files)
       /\ (ClearCache \/ LoadCvText) => analysis_history' = analysis_history
       /\ (history_copy' # history_copy) => analysis_history' = analysis_history
      ]_vars

\* C16 witness: after two batch runs and a clear_cache, a caller emptied the
\* list it was given while the engine's history still holds both batches
C16_Witness ==
    /\ Len(analysis_history) >= 2
    /\ analysis_history[1] # analysis_history[2]
    /\ history_copy.list # "none"
    /\ history_copy.items = <<>>

\* C17: normalize_algorithm maps the aliases of the table, in any letter
\* case and with surrounding spaces, to their canonical name (kmp -> KMP;
\* rabin-karp, rabinkarp, rabin, rk -> Rabin-Karp; brute force, bruteforce,
\* brute, bf -> Brute Force; compare all, compare, all -> Compare All) and
\* every other value to None; in --analyze mode the run takes the
\* invalid-algorithm path (exit with status 2, the mode's body not run)
\* exactly when the result is None.
C17_NormalizeAlgorithm ==
    (argv.mode = "--analyze" /\ cli_pc # "try") =>
        LET raw == IF argv.flag = "value" THEN argv.value
                   ELSE Text(<<"K", "M", "P">>)
        IN  /\ raw \in Spellings(Aliases.KMP) <=> cli_algorithm = "KMP"
            /\ raw \in Spellings(Aliases.RabinKarp) <=> cli_algorithm = "Rabin-Karp"
            /\ raw \in Spellings(Aliases.BruteForce) <=> cli_algorithm = "Brute Force"
            /\ raw \in Spellings(Aliases.CompareAll) <=> cli_algorithm = "Compare All"
            /\ raw \in NotAliases <=> cli_algorithm = None
            /\ cli_algorithm = None <=>
                 (cli_pc \in {"finally", "exited"} /\ pending = SystemExit(2))
            /\ cli_pc = "exited" => exit_status = 2 /\ cli_algorithm = None

\* "RABIN-KARP" has been normalised to Rabin-Karp and the analysis runs
C17_Witness ==
    /\ argv.mode = "--analyze"
    /\ argv.value = Text(<<"R", "A", "B", "I", "N", "-", "K", "A", "R", "P">>)
    /\ cli_algorithm = "Rabin-Karp"
    /\ cli_pc = "body"

Range(seq) == {seq[k] : k \in 1..Len(seq)}

\* the notifications of one kind a worker has emitted, and the calls of
\* analyze_multiple_cvs it has made
Emitted(worker, kinds) == SelectSeq(worker.emitted, LAMBDA e : e[1] \in kinds)

CallsOf(worker) ==
    LET calls == SelectSeq(worker.trace, LAMBDA e : e[1] = "call")
    IN  [k \in 1..Len(calls) |-> calls[k][2]]

\* where a worker stands when it is not about to emit
Quiet == {"begin", "analyze", "check", "except", "exit", "gone"}

\* C18: the compare-all worker calls the batch analysis with Brute Force,
\* Rabin-Karp, KMP in that order; its progress notifications are (1,3),
\* (2,3), (3,3) in that order, each emitted right before the call of the
\* corresponding algorithm; once interruption stands requested before an
\* algorithm's check the worker starts no further algorithm and emits
\* nothing more; and when it has emitted the mapping, the mapping holds a
\* batch for each of the three algorithms and nothing was emitted after it.
C18_CompareAllWorker ==
    /\ [](\A w \in 1..Len(workers) :
            LET worker == workers[w]
                order == <<"Brute Force", "Rabin-Karp", "KMP">>
                progress == Emitted(worker, {"progress"})
                calls == CallsOf(worker)
                nth(k) == Cardinality({j \in 1..k : worker.trace[j][1] = "call"})
            IN  (worker.kind = "compare" /\ ~worker.destroyed) =>
                  /\ Len(calls) <= 3
                  /\ calls = SubSeq(order, 1, Len(calls))
                  /\ progress = [k \in 1..Len(calls) |-> <<"progress", k, 3>>]
                  /\ \A k \in 1..Len(worker.trace) :
                        worker.trace[k][1] = "call" =>
                            /\ k > 1
                            /\ worker.trace[k - 1] = <<"progress", nth(k), 3>>
                  /\ <<"finished">> \in Range(worker.emitted) =>
                        /\ ResultsOf(worker) = order
                        /\ worker.emitted[Len(worker.emitted)] = <<"finished">>
                        /\ Len(Emitted(worker, {"finished"})) = 1)
    /\ [][\A w \in 1..Len(workers) :
            LET worker == workers[w]
                after == workers'[w]
            IN  (/\ worker.kind = "compare"
                 /\ worker.interruption_requested
                 /\ worker.pc \in Quiet
                 /\ ~after.destroyed)
                => /\ after.interruption_requested
                   /\ after.pc \in Quiet
                   /\ CallsOf(after) = CallsOf(worker)
                   /\ after.emitted = worker.emitted]_vars

\* C18 witness: a compare-all worker that ran to the end: three progress
\* notifications and the mapping of the three batches
C18_Witness ==
    \E w \in 1..Len(workers) :
        /\ workers[w].kind = "compare"
        /\ ~workers[w].destroyed
        /\ workers[w].emitted = <<(<<"progress", 1, 3>>), (<<"progress", 2, 3>>),
                                  (<<"progress", 3, 3>>), (<<"finished">>)>>
        /\ ResultsOf(workers[w]) = <<"Brute Force", "Rabin-Karp", "KMP">>

\* C19: once interruption of a single-algorithm worker has been requested,
\* the worker begins the scoring of no further CV file.
C19_NoFileAfterInterruption ==
    [][\A w \in 1..Len(workers) :
          LET worker == workers[w]
              after == workers'[w]
          IN  (/\ worker.kind = "single"
               /\ worker.interruption_requested
               /\ ~after.destroyed)
              => ~(after.pc = "analyze" /\ after.file > worker.file)]_vars

\* C20: a worker run ends with at most one terminal notification, never a
\* completion and an error both; a completion was emitted only after the
\* batch path returned and an error only after it raised; and a worker whose
\* interruption stands requested at a check of run() emits nothing from
\* there on, while one without a request at the final check or in the
\* handler goes on to emit.
C20_AtMostOneTerminal ==
    /\ [](\A w \in 1..Len(workers) :
            LET worker == workers[w]
                last == worker.trace[Len(worker.trace)]
            IN  ~worker.destroyed =>
                  /\ Len(Emitted(worker, {"finished", "error"})) <= 1
                  /\ <<"finished">> \in Range(worker.emitted) =>
                        /\ last[1] = "return"
                        /\ <<"raise">> \notin Range(worker.trace)
                  /\ <<"error">> \in Range(worker.emitted) => last = <<"raise">>)
    /\ [][\A w \in 1..Len(workers) :
            LET worker == workers[w]
                after == workers'[w]
            IN  ~after.destroyed =>
                  /\ (worker.interruption_requested /\ worker.pc \in Quiet)
                        => /\ after.pc \in Quiet
                           /\ after.emitted = worker.emitted
                           /\ worker.pc \in {"begin", "analyze", "check", "except"}
                                 => Emitted(worker, {"finished", "error"}) = <<>>
                  /\ (~worker.interruption_requested /\ worker.pc = "check")
                        => after.pc \in {"check", "emit", "gone"}
                  /\ (~worker.interruption_requested /\ worker.pc = "except")
                        => after.pc \in {"except", "emit_error", "gone"}]_vars

\* C20 witness: a compare-all run that ended with its one notification, the
\* error of its second batch, and an earlier single run that was
\* interrupted at a check and ended with none
C20_Witness ==
    \E v, w \in 1..Len(workers) :
        /\ workers[w].kind = "compare"
        /\ ~workers[w].running /\ ~workers[w].destroyed
        /\ Emitted(workers[w], {"finished", "error"}) = <<(<<"error">>)>>
        /\ Len(ResultsOf(workers[w])) = 1
        /\ workers[v].kind = "single"
        /\ ~workers[v].running /\ ~workers[v].destroyed
        /\ workers[v].interruption_requested
        /\ workers[v].trace # <<>>
        /\ Emitted(workers[v], {"finished", "error"}) = <<>>

\* C25: for every non-empty pattern, _build_failure_function returns an
\* array of the pattern's length whose entry i is the length of the longest
\* proper prefix of pattern[0..i] that is also a suffix of it; for
\* "aabaabaaa" the array is [0,1,0,1,2,3,4,5,2].
C25_FailureFunction ==
    (failure_function # NotBuilt) =>
        LET Border(n, k) == SubSeq(pattern, 1, k) = SubSeq(pattern, n - k + 1, n)
            Longest(n) == CHOOSE k \in 0..(n - 1) :
                             /\ Border(n, k)
                             /\ \A l \in (k + 1)..(n - 1) : ~Border(n, l)
        IN  /\ Len(failure_function) = Len(pattern)
            /\ \A n \in 1..Len(pattern) : failure_function[n] = Longest(n)
            /\ pattern = Text(<<"a", "a", "b", "a", "a", "b", "a", "a", "a">>)
                  => failure_function = <<0, 1, 0, 1, 2, 3, 4, 5, 2>>

\* C25 witness: the failure function of "aabaabaaa" has been built
C25_Witness ==
    /\ pattern = Text(<<"a", "a", "b", "a", "a", "b", "a", "a", "a">>)
    /\ failure_function = <<0, 1, 0, 1, 2, 3, 4, 5, 2>>

FallbackStep ==
    LET eq == text[kmp_state.i + 1] = pattern[kmp_state.j + 1]
        i1 == IF eq THEN kmp_state.i + 1 ELSE kmp_state.i
        j1 == IF eq THEN kmp_state.j + 1 ELSE kmp_state.j
    IN  /\ kmp_state.pc = "loop"
        /\ kmp_state.i < Len(text)
        /\ j1 # Len(pattern) /\ j1 > 0
        /\ i1 < Len(text) /\ text[i1 + 1] # pattern[j1 + 1]

\* the pairs of characters the loop step from the current state compares for
\* the first time: the mismatching pair, and the matching pair before it
PairsCompared ==
    IF text[kmp_state.i + 1] = pattern[kmp_state.j + 1] THEN 2 ELSE 1

\* C27: an iteration of kmp_search's loop that finds a mismatch with j > 0
\* and falls back j to lps[j-1] leaves the comparison counter unchanged.
C27_FallbackNotCounted ==
    [][(FallbackStep /\ kmp_state'.pc = "loop")
           => kmp_state'.comparisons = kmp_state.comparisons]_vars

\* C27, amended: an iteration of kmp_search's loop that finds a mismatch with
\* j > 0 and falls back j to lps[j-1] counts the mismatching pair once, on top
\* of the matching pair the same iteration may have advanced over; the
\* assignment to j adds nothing to the counter, and the same pair is never
\* counted again (the next state compares a pair with a smaller j).
C27_FallbackCountsMismatch ==
    [][(FallbackStep /\ kmp_state'.pc = "loop")
           => /\ kmp_state'.comparisons = kmp_state.comparisons + PairsCompared
              /\ kmp_state'.j < kmp_state.j + PairsCompared - 1
              /\ kmp_state'.i = kmp_state.i + PairsCompared - 1]_vars

\* C27 witness: a search has returned after counting more comparisons than
\* the text has characters, which only counted fallbacks can produce (every
\* other counted comparison advances the text index)
C27_Witness ==
    /\ kmp_state.pc = "returned"
    /\ kmp_state.comparisons > Len(text)
    /\ kmp_state.matches = <<>>

\* C28: for every text of length n and every non-empty pattern of length at
\* most n, kmp_search terminates and reports at most 2*n comparisons: the
\* count never exceeds 2*n, every iteration of the loop raises 2*i - j,
\* which is at most 2*n, and the loop ends with the result of kmp_search.
C28_KmpComparisonBound ==
    /\ [](/\ kmp_state.comparisons <= 2 * Len(text)
          /\ kmp_state.i \in 0..Len(text)
          /\ kmp_state.j \in 0..kmp_state.i
          /\ kmp_state.pc = "returned" =>
                /\ kmp_state.i >= Len(text) \/ Len(pattern) > Len(text)
                /\ kmp_search(text, pattern, case_sensitive)
                      = SearchResult(kmp_state.matches, kmp_state.comparisons))
    /\ [][(kmp_state.pc = "loop" /\ kmp_state'.pc = "loop")
            => 2 * kmp_state'.i - kmp_state'.j > 2 * kmp_state.i - kmp_state.j]_vars

\* C28 witness: a search of a pattern no longer than the text has returned
\* with matches, after more comparisons than the text has characters
C28_Witness ==
    /\ kmp_state.pc = "returned"
    /\ Len(pattern) <= Len(text)
    /\ Len(text) = MaxKmpText
    /\ kmp_state.matches # <<>>
    /\ kmp_state.comparisons > Len(text)

\* C29: between two clear_cache calls the extraction cache only grows.  Every
\* step other than clear_cache keeps each entry of the cache as it is, also
\* when the file has changed on disk since; a step adds entries only for
\* the supported paths it loads, so a load of a path with an unsupported
\* extension adds none; clear_cache empties the cache.
C29_CacheOnlyGrows ==
    [][LET cleared == last_call'.op = "clear" /\ disk' = disk
           loaded == IF last_call' # last_call \/ load_log' # load_log
                     THEN Range(last_call'.cv_files)
                     ELSE {}
       IN  /\ ~cleared =>
                \A f \in DOMAIN cv_cache :
                    f \in DOMAIN cv_cache' /\ cv_cache'[f] = cv_cache[f]
           /\ cleared => cv_cache' = EmptyCache
           /\ (DOMAIN cv_cache') \ (DOMAIN cv_cache)
                  \subseteq loaded \cap SupportedPaths]_vars

\* C29 witness: a batch has just loaded an unsupported path and a path whose
\* file has changed on disk since it was cached; the older entry is still the
\* cached one
C29_Witness ==
    /\ last_call.op = "analyze"
    /\ \E f \in DOMAIN cv_cache :
          /\ f \in Range(last_call.cv_files)
          /\ cv_cache[f].extracted_text # disk[f].text
          /\ cv_cache[f].validation_status
    /\ Range(last_call.cv_files) \ SupportedPaths # {}
    /\ Len(load_log) = 2

\* C30: for every CV text and every keyword list, the result of analyze_cv
\* accounts for each input keyword exactly once: no keyword is in both the
\* matched and the missing list, and the lengths of the two lists add up to
\* total_keywords.
C30_EachKeywordOnce ==
    (analyze_result.called /\ ~analyze_result.result.raised) =>
        LET result == analyze_result.result
            matched == result.matched_keywords
            missing == result.missing_keywords
        IN  /\ Len(matched) + Len(missing) = result.total_keywords
            /\ Range(matched) \cap Range(missing) = {}
\* the step is the return of stop_analysis: the Stop control goes off and no
\* event leaves the UI thread's queue (the handlers of the notifications
\* also switch the control off, and each takes its event from the queue)
StopReturns ==
    /\ stop_analysis_btn /\ ~stop_analysis_btn'
    /\ Len(ui_queue') >= Len(ui_queue)

\* C22: once stop_analysis has returned, the result of the stopped worker is
\* never applied: when stop_analysis returns, the worker it stopped runs no
\* more and none of its completion notifications waits in the UI thread's
\* queue, where on_analysis_completed or _on_compare_all_finished would
\* handle it afterwards, changing the session results mapping, the
\* persisted results and the Results tab.
C22_StoppedResultNotApplied ==
    [][StopReturns =>
          \A w \in analysis_worker :
             /\ ~workers'[w].running
             /\ [type |-> "completed", worker |-> w] \notin Range(ui_queue')]_vars
\* C23: every BatchAnalysisResult has total_cvs_analyzed equal to the number
\* of entries in its cv_results, also for a batch run by a GUI worker while
\* the user loads more files or clears the file list on the UI thread.
C23_TotalIsNumberOfResults ==
    batch_loop.pc = "returned" =>
        batch_loop.total_cvs_analyzed = Len(batch_loop.cv_results)
\* C24: after any sequence of GUI operations (save job, delete job, start
\* analysis, analysis completion with persistence), every persisted
\* analysis_results row and batch_analysis_results row refers to a job
\* description that still exists in job_descriptions.
C24_RowsReferToExistingJob ==
    LET ids == {job.id : job \in job_descriptions}
    IN  /\ \A r \in analysis_rows : r.job_description_id \in ids
        /\ \A r \in batch_rows : r.job_description_id \in ids
\* C21: every read and every write of the results mapping happens while the
\* results lock is held, no two threads are ever inside such a section at
\* the same time, and each read takes a shallow copy of the mapping before
\* releasing the lock and works on the copy afterwards: the mapping changes
\* only by the assignment of a writer that holds the lock, a reader's copy
\* is taken only while it holds the lock, is the whole mapping when the
\* lock is released, and stays as taken until the handler returns.
C21_ResultsLockDiscipline ==
    /\ [](\A t \in Threads :
             sections[t].pc \in {"locked", "unlock"} => results_mutex = t)
    /\ [][/\ analysis_results' # analysis_results =>
                \E w \in Threads :
                    /\ sections[w].pc = "locked" /\ results_mutex = w
                    /\ sections[w].handler \in Writers
                    /\ sections'[w].pc = "unlock"
           /\ \A t \in Threads :
                /\ (sections'[t].pc # "idle"
                    /\ sections'[t].snapshot # sections[t].snapshot) =>
                       /\ sections[t].pc = "locked" /\ results_mutex = t
                       /\ sections'[t].snapshot = analysis_results
                /\ (sections[t].pc = "unlock"
                    /\ sections[t].handler \in Readers) =>
                       sections[t].snapshot = analysis_results]_vars

\* C21 witness: a reader has released the lock and works on its copy, which
\* is no longer the mapping: another thread has written since and a third
\* section is under way
C21_Witness ==
    \E t, u \in Threads :
        /\ t # u
        /\ sections[t].pc = "after"
        /\ sections[t].handler \in Readers
        /\ sections[t].snapshot # analysis_results
        /\ DOMAIN sections[t].snapshot # {}
        /\ sections[u].pc = "locked"
====
